---------------------------- MODULE Spec2Model ----------------------------
(***************************************************************************)
(* A model of the MetagenClean data-cleaning pipeline: the GEO file        *)
(* parsers and the metadata cleaner of DataProcessor                       *)
(* (src/MetagenClean/data_processor.py) and the organism-name normalizer   *)
(* OrganismNormalizer (src/organism_normalizer.py).                        *)
(*                                                                         *)
(* A Python str is a sequence of characters; a character is a one-letter   *)
(* TLA+ string, except the control characters, written in caret notation   *)
(* ("^A" is U+0001, "^_" is U+001F, "^?" is U+007F) and the one non-ASCII  *)
(* letter of the model, "U+017F" (LATIN SMALL LETTER LONG S).  A missing   *)
(* cell (NaN) is the one-element sequence NaN, which is no string of       *)
(* characters.                                                             *)
(***************************************************************************)
EXTENDS Integers, Sequences, FiniteSets, TLC

\* Bounds of the model (none of them is a constant of the program).
MaxTokens == 3    \* tokens concatenated into an organism name

MaxAliases == 2   \* aliases added to the seeded mapping at runtime

MaxRows == 2      \* rows of a metadata table handed to clean_metadata

MaxLines == 4     \* lines of a .soft file

MaxColumns == 3   \* columns of a .txt file

MaxTableColumns == 2  \* columns of a table handed to normalize_metadata

MaxTableRows == 2     \* rows of a table handed to normalize_metadata

MaxReportColumns == 6 \* columns of a metadata table reported on

MaxReportRows == 2    \* rows of a metadata table reported on

MaxExpressionColumns == 22  \* columns of an expression table reported on

MaxCleanColumns == 2  \* columns of an expression table cleaned

MaxCleanRows == 2     \* rows of an expression table cleaned

MaxSamples == 2       \* subsets of a GDS, samples of a GSE

MaxOwnedRows == 2     \* rows of a table followed across a call

---------------------------------------------------------------------------
\* Characters and the str methods the program uses.

LowerLetters ==
  <<"a","b","c","d","e","f","g","h","i","j","k","l","m",
    "n","o","p","q","r","s","t","u","v","w","x","y","z">>

UpperLetters ==
  <<"A","B","C","D","E","F","G","H","I","J","K","L","M",
    "N","O","P","Q","R","S","T","U","V","W","X","Y","Z">>

Digits == {"0","1","2","3","4","5","6","7","8","9"}

ToLowerMap ==
  [c \in {UpperLetters[i] : i \in DOMAIN UpperLetters} |->
     LowerLetters[CHOOSE i \in DOMAIN UpperLetters : UpperLetters[i] = c]]

ToUpperMap ==
  [c \in {LowerLetters[i] : i \in DOMAIN LowerLetters} |->
     UpperLetters[CHOOSE i \in DOMAIN LowerLetters : LowerLetters[i] = c]]

\* U+017F is a lowercase letter whose uppercase (and titlecase) is "S".
LongS == "U+017F"

\* str.lower of one character.
LowerChar(c) == IF c \in DOMAIN ToLowerMap THEN ToLowerMap[c] ELSE c

\* str.upper of one character.
UpperChar(c) ==
  IF c = LongS THEN "S" ELSE IF c \in DOMAIN ToUpperMap THEN ToUpperMap[c] ELSE c

\* The case folding of re.IGNORECASE: "s", "S" and U+017F match each other.
FoldChar(c) == IF c = LongS THEN "s" ELSE LowerChar(c)

\* str.isspace / the regex class \s: U+001C..U+001F are whitespace too.
IsSpace(c) == c \in {" ", "\t", "\n", "^_"}

\* The regex class [\x00-\x1f\x7f-\x9f].
IsControl(c) == c \in {"\t", "\n", "^_", "^A", "^?"}

\* The regex class \w.
IsWord(c) ==
  \/ c \in DOMAIN ToLowerMap \/ c \in DOMAIN ToUpperMap \/ c = LongS
  \/ c \in Digits \/ c = "_"

\* str.lower
Lower(s) == [i \in 1..Len(s) |-> LowerChar(s[i])]

RECURSIVE LStrip(_)
\* str.lstrip
LStrip(s) == IF s # <<>> /\ IsSpace(Head(s)) THEN LStrip(Tail(s)) ELSE s

RECURSIVE RStrip(_)
\* str.rstrip
RStrip(s) ==
  IF s # <<>> /\ IsSpace(s[Len(s)]) THEN RStrip(SubSeq(s, 1, Len(s) - 1)) ELSE s

\* str.strip
Strip(s) == RStrip(LStrip(s))

RECURSIVE CollapseSpaces(_)
\* re.sub(r'\s+', ' ', s): every maximal run of whitespace becomes one space.
CollapseSpaces(s) ==
  IF s = <<>> THEN <<>>
  ELSE IF IsSpace(Head(s))
       THEN <<" ">> \o CollapseSpaces(LStrip(s))
       ELSE <<Head(s)>> \o CollapseSpaces(Tail(s))

\* re.sub(r'[\x00-\x1f\x7f-\x9f]', '', s)
RemoveControl(s) == SelectSeq(s, LAMBDA c : ~IsControl(c))

\* str.startswith
StartsWith(s, p) == Len(s) >= Len(p) /\ SubSeq(s, 1, Len(p)) = p

\* str.endswith
EndsWith(s, p) == Len(s) >= Len(p) /\ SubSeq(s, Len(s) - Len(p) + 1, Len(s)) = p

\* `sub in s' for strings
Contains(s, sub) ==
  \E i \in 1..(Len(s) - Len(sub) + 1) : SubSeq(s, i, i + Len(sub) - 1) = sub

RECURSIVE SplitSpace(_)
\* str.split(): the words between runs of whitespace.
SplitSpace(s) ==
  LET t == LStrip(s)
      n == IF \E i \in 1..Len(t) : IsSpace(t[i])
           THEN (CHOOSE i \in 1..Len(t) :
                   IsSpace(t[i]) /\ \A j \in 1..(i - 1) : ~IsSpace(t[j])) - 1
           ELSE Len(t)
  IN  IF t = <<>> THEN <<>>
      ELSE <<SubSeq(t, 1, n)>> \o SplitSpace(SubSeq(t, n + 1, Len(t)))

RECURSIVE Join(_, _)
\* sep.join(words)
Join(sep, words) ==
  IF words = <<>> THEN <<>>
  ELSE IF Len(words) = 1 THEN words[1]
  ELSE words[1] \o sep \o Join(sep, Tail(words))

RECURSIVE Concat(_)
\* ''.join(parts)
Concat(parts) == IF parts = <<>> THEN <<>> ELSE Head(parts) \o Concat(Tail(parts))

\* str.capitalize: the first character upper-cased, the rest lower-cased.
Capitalize(w) ==
  IF w = <<>> THEN <<>> ELSE <<UpperChar(w[1])>> \o Lower(Tail(w))

\* The missing marker (np.nan): pd.isna(x) is x = NaN.
NaN == <<"<NaN>">>

---------------------------------------------------------------------------
\* OrganismNormalizer (src/organism_normalizer.py).

HomoSapiens == <<"H","o","m","o"," ","s","a","p","i","e","n","s">>

MusMusculus == <<"M","u","s"," ","m","u","s","c","u","l","u","s">>

RattusNorvegicus == <<"R","a","t","t","u","s"," ","n","o","r","v","e","g","i","c","u","s">>

DanioRerio == <<"D","a","n","i","o"," ","r","e","r","i","o">>

DrosophilaMelanogaster == <<"D","r","o","s","o","p","h","i","l","a"," ","m","e","l","a","n","o","g","a","s","t","e","r">>

CaenorhabditisElegans == <<"C","a","e","n","o","r","h","a","b","d","i","t","i","s"," ","e","l","e","g","a","n","s">>

SaccharomycesCerevisiae == <<"S","a","c","c","h","a","r","o","m","y","c","e","s"," ","c","e","r","e","v","i","s","i","a","e">>

ArabidopsisThaliana == <<"A","r","a","b","i","d","o","p","s","i","s"," ","t","h","a","l","i","a","n","a">>

\* organism_mappings as built by __init__: (alias, canonical name) pairs.
SeedMappings ==
  << <<<<"h","u","m","a","n">>, HomoSapiens>>,   \* 'human'
     <<<<"h","."," ","s","a","p","i","e","n","s">>, HomoSapiens>>,   \* 'h. sapiens'
     <<<<"h","o","m","o"," ","s","a","p","i","e","n","s">>, HomoSapiens>>,   \* 'homo sapiens'
     <<<<"h",".","s","a","p","i","e","n","s">>, HomoSapiens>>,   \* 'h.sapiens'
     <<<<"h","o","m","o","_","s","a","p","i","e","n","s">>, HomoSapiens>>,   \* 'homo_sapiens'
     <<<<"h","s","a">>, HomoSapiens>>,   \* 'hsa'
     <<<<"h","s","a","p","i","e","n","s">>, HomoSapiens>>,   \* 'hsapiens'
     <<<<"m","o","u","s","e">>, MusMusculus>>,   \* 'mouse'
     <<<<"m","."," ","m","u","s","c","u","l","u","s">>, MusMusculus>>,   \* 'm. musculus'
     <<<<"m","u","s"," ","m","u","s","c","u","l","u","s">>, MusMusculus>>,   \* 'mus musculus'
     <<<<"m",".","m","u","s","c","u","l","u","s">>, MusMusculus>>,   \* 'm.musculus'
     <<<<"m","u","s","_","m","u","s","c","u","l","u","s">>, MusMusculus>>,   \* 'mus_musculus'
     <<<<"m","m","u">>, MusMusculus>>,   \* 'mmu'
     <<<<"m","m","u","s","c","u","l","u","s">>, MusMusculus>>,   \* 'mmusculus'
     <<<<"r","a","t">>, RattusNorvegicus>>,   \* 'rat'
     <<<<"r","."," ","n","o","r","v","e","g","i","c","u","s">>, RattusNorvegicus>>,   \* 'r. norvegicus'
     <<<<"r","a","t","t","u","s"," ","n","o","r","v","e","g","i","c","u","s">>, RattusNorvegicus>>,   \* 'rattus norvegicus'
     <<<<"r",".","n","o","r","v","e","g","i","c","u","s">>, RattusNorvegicus>>,   \* 'r.norvegicus'
     <<<<"r","a","t","t","u","s","_","n","o","r","v","e","g","i","c","u","s">>, RattusNorvegicus>>,   \* 'rattus_norvegicus'
     <<<<"r","n","o">>, RattusNorvegicus>>,   \* 'rno'
     <<<<"r","n","o","r","v","e","g","i","c","u","s">>, RattusNorvegicus>>,   \* 'rnorvegicus'
     <<<<"z","e","b","r","a","f","i","s","h">>, DanioRerio>>,   \* 'zebrafish'
     <<<<"d","."," ","r","e","r","i","o">>, DanioRerio>>,   \* 'd. rerio'
     <<<<"d","a","n","i","o"," ","r","e","r","i","o">>, DanioRerio>>,   \* 'danio rerio'
     <<<<"d",".","r","e","r","i","o">>, DanioRerio>>,   \* 'd.rerio'
     <<<<"d","a","n","i","o","_","r","e","r","i","o">>, DanioRerio>>,   \* 'danio_rerio'
     <<<<"d","r","e">>, DanioRerio>>,   \* 'dre'
     <<<<"d","r","e","r","i","o">>, DanioRerio>>,   \* 'drerio'
     <<<<"f","r","u","i","t"," ","f","l","y">>, DrosophilaMelanogaster>>,   \* 'fruit fly'
     <<<<"f","r","u","i","t","f","l","y">>, DrosophilaMelanogaster>>,   \* 'fruitfly'
     <<<<"d","."," ","m","e","l","a","n","o","g","a","s","t","e","r">>, DrosophilaMelanogaster>>,   \* 'd. melanogaster'
     <<<<"d","r","o","s","o","p","h","i","l","a"," ","m","e","l","a","n","o","g","a","s","t","e","r">>, DrosophilaMelanogaster>>,   \* 'drosophila melanogaster'
     <<<<"d",".","m","e","l","a","n","o","g","a","s","t","e","r">>, DrosophilaMelanogaster>>,   \* 'd.melanogaster'
     <<<<"d","r","o","s","o","p","h","i","l","a","_","m","e","l","a","n","o","g","a","s","t","e","r">>, DrosophilaMelanogaster>>,   \* 'drosophila_melanogaster'
     <<<<"d","m","e">>, DrosophilaMelanogaster>>,   \* 'dme'
     <<<<"d","m","e","l","a","n","o","g","a","s","t","e","r">>, DrosophilaMelanogaster>>,   \* 'dmelanogaster'
     <<<<"c","."," ","e","l","e","g","a","n","s">>, CaenorhabditisElegans>>,   \* 'c. elegans'
     <<<<"c","a","e","n","o","r","h","a","b","d","i","t","i","s"," ","e","l","e","g","a","n","s">>, CaenorhabditisElegans>>,   \* 'caenorhabditis elegans'
     <<<<"c",".","e","l","e","g","a","n","s">>, CaenorhabditisElegans>>,   \* 'c.elegans'
     <<<<"c","a","e","n","o","r","h","a","b","d","i","t","i","s","_","e","l","e","g","a","n","s">>, CaenorhabditisElegans>>,   \* 'caenorhabditis_elegans'
     <<<<"c","e","l">>, CaenorhabditisElegans>>,   \* 'cel'
     <<<<"c","e","l","e","g","a","n","s">>, CaenorhabditisElegans>>,   \* 'celegans'
     <<<<"w","o","r","m">>, CaenorhabditisElegans>>,   \* 'worm'
     <<<<"y","e","a","s","t">>, SaccharomycesCerevisiae>>,   \* 'yeast'
     <<<<"s","."," ","c","e","r","e","v","i","s","i","a","e">>, SaccharomycesCerevisiae>>,   \* 's. cerevisiae'
     <<<<"s","a","c","c","h","a","r","o","m","y","c","e","s"," ","c","e","r","e","v","i","s","i","a","e">>, SaccharomycesCerevisiae>>,   \* 'saccharomyces cerevisiae'
     <<<<"s",".","c","e","r","e","v","i","s","i","a","e">>, SaccharomycesCerevisiae>>,   \* 's.cerevisiae'
     <<<<"s","a","c","c","h","a","r","o","m","y","c","e","s","_","c","e","r","e","v","i","s","i","a","e">>, SaccharomycesCerevisiae>>,   \* 'saccharomyces_cerevisiae'
     <<<<"s","c","e">>, SaccharomycesCerevisiae>>,   \* 'sce'
     <<<<"s","c","e","r","e","v","i","s","i","a","e">>, SaccharomycesCerevisiae>>,   \* 'scerevisiae'
     <<<<"a","r","a","b","i","d","o","p","s","i","s">>, ArabidopsisThaliana>>,   \* 'arabidopsis'
     <<<<"a","."," ","t","h","a","l","i","a","n","a">>, ArabidopsisThaliana>>,   \* 'a. thaliana'
     <<<<"a","r","a","b","i","d","o","p","s","i","s"," ","t","h","a","l","i","a","n","a">>, ArabidopsisThaliana>>,   \* 'arabidopsis thaliana'
     <<<<"a",".","t","h","a","l","i","a","n","a">>, ArabidopsisThaliana>>,   \* 'a.thaliana'
     <<<<"a","r","a","b","i","d","o","p","s","i","s","_","t","h","a","l","i","a","n","a">>, ArabidopsisThaliana>>,   \* 'arabidopsis_thaliana'
     <<<<"a","t","h">>, ArabidopsisThaliana>>,   \* 'ath'
     <<<<"a","t","h","a","l","i","a","n","a">>, ArabidopsisThaliana>> >>   \* 'athaliana'

SeedMapping ==
  [k \in {SeedMappings[i][1] : i \in DOMAIN SeedMappings} |->
     SeedMappings[CHOOSE i \in DOMAIN SeedMappings : SeedMappings[i][1] = k][2]]

\* The regex tokens \s+ and \s* (every other pattern element is a literal).
WsPlus == "\\s+"

WsStar == "\\s*"

\* The patterns \b(a|b|c)\b in declared order, each with its alternatives.
organism_patterns ==
  << [alts |-> << <<"h","o","m","o",WsPlus,"s","a","p","i","e","n","s">>,
                 <<"h",".",WsStar,"s","a","p","i","e","n","s">>,
                 <<"h","u","m","a","n">> >>,
      name |-> HomoSapiens ],
     [alts |-> << <<"m","u","s",WsPlus,"m","u","s","c","u","l","u","s">>,
                 <<"m",".",WsStar,"m","u","s","c","u","l","u","s">>,
                 <<"m","o","u","s","e">> >>,
      name |-> MusMusculus ],
     [alts |-> << <<"r","a","t","t","u","s",WsPlus,"n","o","r","v","e","g","i","c","u","s">>,
                 <<"r",".",WsStar,"n","o","r","v","e","g","i","c","u","s">>,
                 <<"r","a","t">> >>,
      name |-> RattusNorvegicus ],
     [alts |-> << <<"d","a","n","i","o",WsPlus,"r","e","r","i","o">>,
                 <<"d",".",WsStar,"r","e","r","i","o">>,
                 <<"z","e","b","r","a","f","i","s","h">> >>,
      name |-> DanioRerio ],
     [alts |-> << <<"d","r","o","s","o","p","h","i","l","a",WsPlus,"m","e","l","a","n","o","g","a","s","t","e","r">>,
                 <<"d",".",WsStar,"m","e","l","a","n","o","g","a","s","t","e","r">>,
                 <<"f","r","u","i","t",WsStar,"f","l","y">> >>,
      name |-> DrosophilaMelanogaster ],
     [alts |-> << <<"c","a","e","n","o","r","h","a","b","d","i","t","i","s",WsPlus,"e","l","e","g","a","n","s">>,
                 <<"c",".",WsStar,"e","l","e","g","a","n","s">>,
                 <<"w","o","r","m">> >>,
      name |-> CaenorhabditisElegans ],
     [alts |-> << <<"s","a","c","c","h","a","r","o","m","y","c","e","s",WsPlus,"c","e","r","e","v","i","s","i","a","e">>,
                 <<"s",".",WsStar,"c","e","r","e","v","i","s","i","a","e">>,
                 <<"y","e","a","s","t">> >>,
      name |-> SaccharomycesCerevisiae ],
     [alts |-> << <<"a","r","a","b","i","d","o","p","s","i","s",WsPlus,"t","h","a","l","i","a","n","a">>,
                 <<"a",".",WsStar,"t","h","a","l","i","a","n","a">>,
                 <<"a","r","a","b","i","d","o","p","s","i","s">> >>,
      name |-> ArabidopsisThaliana ] >>

\* The length of the whitespace run of s that starts at position i.
RECURSIVE SpaceRun(_, _)
SpaceRun(s, i) ==
  IF i <= Len(s) /\ IsSpace(s[i]) THEN 1 + SpaceRun(s, i + 1) ELSE 0

RECURSIVE MatchEnds(_, _, _, _)
\* The positions at which a match of pat[k..] that starts at s[i] can end
\* (the position after its last character), under re.IGNORECASE.
MatchEnds(pat, k, s, i) ==
  IF k > Len(pat) THEN {i}
  ELSE IF pat[k] = WsPlus
       THEN UNION {MatchEnds(pat, k + 1, s, i + m) : m \in 1..SpaceRun(s, i)}
  ELSE IF pat[k] = WsStar
       THEN UNION {MatchEnds(pat, k + 1, s, i + m) : m \in 0..SpaceRun(s, i)}
  ELSE IF i <= Len(s) /\ FoldChar(s[i]) = FoldChar(pat[k])
       THEN MatchEnds(pat, k + 1, s, i + 1)
       ELSE {}

\* \b at position p (between s[p-1] and s[p]).
WordBoundary(s, p) ==
  (p > 1 /\ IsWord(s[p - 1])) # (p <= Len(s) /\ IsWord(s[p]))

\* re.search(r'\b(alt1|alt2|...)\b', s, re.IGNORECASE) finds a match.
Search(alts, s) ==
  \E i \in 1..(Len(s) + 1) :
    /\ WordBoundary(s, i)
    /\ \E a \in DOMAIN alts :
         \E j \in MatchEnds(alts[a], 1, s, i) : WordBoundary(s, j)

\* re.sub(r'[^\w\s\.]', ' ', s): every other character becomes a space.
ReplaceSpecial(s) ==
  [i \in 1..Len(s) |->
     IF IsWord(s[i]) \/ IsSpace(s[i]) \/ s[i] = "." THEN s[i] ELSE " "]

\* CleanOrganism without the .lower() call.
CleanOrganismNoLower(organism) ==
  Strip(ReplaceSpecial(CollapseSpaces(Strip(organism))))

\* The lookup key of normalize_organism_name (lines 113-118).
CleanOrganism(organism) ==
  Strip(ReplaceSpecial(CollapseSpaces(Lower(Strip(organism)))))

Particles == {<<"s","p",".">>, <<"v","a","r",".">>,
              <<"s","u","b","s","p",".">>, <<"c","f",".">>}

\* _capitalize_organism_name
CapitalizeOrganismName(organism) ==
  IF organism = NaN \/ organism = <<>> THEN organism
  ELSE LET words == SplitSpace(Strip(organism))
       IN  Join(<<" ">>,
                [i \in 1..Len(words) |->
                   IF i = 1 \/ Lower(words[i]) \notin Particles
                   THEN Capitalize(words[i])
                   ELSE Lower(words[i])])

\* The pattern loop returning the last pattern that matches.
LastPattern(clean) ==
  IF \E p \in DOMAIN organism_patterns : Search(organism_patterns[p].alts, clean)
  THEN CHOOSE p \in DOMAIN organism_patterns :
         /\ Search(organism_patterns[p].alts, clean)
         /\ \A q \in (p + 1)..Len(organism_patterns) :
              ~Search(organism_patterns[q].alts, clean)
  ELSE 0

\* The `for pattern, normalized_name in self.organism_patterns' loop: the
\* index of the first pattern that matches, 0 when none does.
FirstPattern(clean) ==
  IF \E p \in DOMAIN organism_patterns : Search(organism_patterns[p].alts, clean)
  THEN CHOOSE p \in DOMAIN organism_patterns :
         /\ Search(organism_patterns[p].alts, clean)
         /\ \A q \in 1..(p - 1) : ~Search(organism_patterns[q].alts, clean)
  ELSE 0

\* normalize_organism_name, with the alias mapping `mappings'.
NormalizeOrganismName(mappings, organism) ==
  IF organism = NaN \/ organism = <<>> THEN organism
  ELSE LET clean == CleanOrganism(organism)
       IN  IF clean \in DOMAIN mappings THEN mappings[clean]
           ELSE LET p == FirstPattern(clean)
                IN  IF p # 0 THEN organism_patterns[p].name
                    ELSE CapitalizeOrganismName(organism)

\* organism_keywords of _find_organism_columns
organism_keywords ==
  << <<"o","r","g","a","n","i","s","m">>,
     <<"s","p","e","c","i","e","s">>,
     <<"t","a","x","o","n","o","m","y">>,
     <<"t","a","x","o","n">>,
     <<"o","r","g","a","n","i","s","m","_","c","h","1">>,
     <<"s","o","u","r","c","e","_","n","a","m","e","_","c","h","1">>,
     <<"c","h","a","r","a","c","t","e","r","i","s","t","i","c","s","_","c","h","1">>,
     <<"o","r","g","a","n","i","s","m","_","p","a","r","t">> >>

\* The columns found when the names are compared as written.
FindOrganismColumnsCaseSensitive(df) ==
  SelectSeq(df.columns, LAMBDA col :
    \E k \in 1..Len(organism_keywords) : Contains(col, organism_keywords[k]))

\* _find_organism_columns
FindOrganismColumns(df) ==
  SelectSeq(df.columns, LAMBDA col :
    \E k \in 1..Len(organism_keywords) : Contains(Lower(col), organism_keywords[k]))

\* df[col] = df[col].apply(self.normalize_organism_name)
ApplyNormalize(mappings, df, col) ==
  [columns |-> df.columns,
   rows |-> [i \in 1..Len(df.rows) |->
               [j \in 1..Len(df.columns) |->
                  IF df.columns[j] = col
                  THEN NormalizeOrganismName(mappings, df.rows[i][j])
                  ELSE df.rows[i][j]]]]

RECURSIVE NormalizeColumns(_, _, _)
\* for col in organism_columns: ...
NormalizeColumns(mappings, df, organism_columns) ==
  IF organism_columns = <<>> THEN df
  ELSE NormalizeColumns(mappings,
                        ApplyNormalize(mappings, df, Head(organism_columns)),
                        Tail(organism_columns))

\* normalize_metadata
NormalizeMetadata(mappings, df) ==
  NormalizeColumns(mappings, df, FindOrganismColumns(df))

---------------------------------------------------------------------------
\* DataProcessor: the metadata cleaner (src/MetagenClean/data_processor.py).
\* A DataFrame is a record [columns, rows]: the column names in order and
\* the rows in order, each row a sequence of cells, one per column.  A cell
\* of a text (object) column is a str or NaN.

\* self.missing_indicators
missing_indicators ==
  { <<>>, <<"n","u","l","l">>, <<"N","U","L","L">>, <<"n","a">>, <<"N","A">>,
    <<"n","/","a">>, <<"N","/","A">>, <<"n","o","n","e">>, <<"N","o","n","e">>,
    <<"N","O","N","E">>, <<"m","i","s","s","i","n","g">>, <<"M","i","s","s","i","n","g">>,
    <<"M","I","S","S","I","N","G">>, <<"-">>, <<"-","-">>, <<"-","-","-">>,
    <<"u","n","d","e","f","i","n","e","d">>, <<"U","n","d","e","f","i","n","e","d">>,
    <<"U","N","D","E","F","I","N","E","D">>, <<"u","n","k","n","o","w","n">>,
    <<"U","n","k","n","o","w","n">>, <<"U","N","K","N","O","W","N">> }

\* str.replace(old, new) for one-character old and new.
ReplaceChar(s, old, new) == [i \in 1..Len(s) |-> IF s[i] = old THEN new ELSE s[i]]

\* df.columns.str.lower().str.replace(' ', '_').str.replace('-', '_')
StandardizeColumns(columns) ==
  [j \in 1..Len(columns) |->
     ReplaceChar(ReplaceChar(Lower(columns[j]), " ", "_"), "-", "_")]

\* _handle_missing_values matching the indicators on the stripped value.
HandleMissingValueStripped(cell) ==
  IF cell # NaN /\ Strip(cell) \in missing_indicators THEN NaN ELSE cell

\* _handle_missing_values on one cell: Series.replace(missing_indicators, nan).
HandleMissingValue(cell) == IF cell \in missing_indicators THEN NaN ELSE cell

\* _clean_text_field
CleanTextField(text) ==
  IF text = NaN THEN text
  ELSE RemoveControl(CollapseSpaces(Strip(text)))

\* Whether every cell of a row is missing.
AllMissing(row) == \A j \in 1..Len(row) : row[j] = NaN

\* df.dropna(how='all')
DropNaAll(rows) == SelectSeq(rows, LAMBDA row : ~AllMissing(row))

\* The rows with their duplicates left in.
DropDuplicatesNone(rows) == rows

RECURSIVE DropDuplicates(_)
\* df.drop_duplicates(): the first occurrence of each row is kept.
DropDuplicates(rows) ==
  IF rows = <<>> THEN <<>>
  ELSE LET init == DropDuplicates(SubSeq(rows, 1, Len(rows) - 1))
           last == rows[Len(rows)]
       IN  IF \E i \in 1..(Len(rows) - 1) : rows[i] = last
           THEN init
           ELSE Append(init, last)

\* clean_metadata
CleanMetadata(df) ==
  LET columns == StandardizeColumns(df.columns)
      replaced == [i \in 1..Len(df.rows) |->
                     [j \in 1..Len(df.rows[i]) |-> HandleMissingValue(df.rows[i][j])]]
      text == [i \in 1..Len(replaced) |->
                 [j \in 1..Len(replaced[i]) |-> CleanTextField(replaced[i][j])]]
  IN  [columns |-> columns, rows |-> DropDuplicates(DropNaAll(text))]

---------------------------------------------------------------------------
\* DataProcessor: the .soft parser.  A sample record (a dict) is a sequence
\* of <<key, value>> pairs in insertion order, with no key twice.

\* expression_data = None
None == [none |-> TRUE]

RECURSIVE SplitOn(_, _)
\* str.split(sep) for a one-character sep: at least one piece.
SplitOn(s, sep) ==
  IF \E i \in 1..Len(s) : s[i] = sep
  THEN LET i == CHOOSE i \in 1..Len(s) :
                  s[i] = sep /\ \A k \in 1..(i - 1) : s[k] # sep
       IN  <<SubSeq(s, 1, i - 1)>> \o SplitOn(SubSeq(s, i + 1, Len(s)), sep)
  ELSE <<s>>

\* str.split(sep, 1): split at the first sep only.
SplitFirst(s, sep) ==
  IF \E i \in 1..Len(s) : s[i] = sep
  THEN LET i == CHOOSE i \in 1..Len(s) :
                  s[i] = sep /\ \A k \in 1..(i - 1) : s[k] # sep
       IN  <<SubSeq(s, 1, i - 1), SubSeq(s, i + 1, Len(s))>>
  ELSE <<s>>

RECURSIVE RemoveAll(_, _)
\* str.replace(sub, ''): every occurrence of sub removed, left to right.
RemoveAll(s, sub) ==
  IF s = <<>> THEN <<>>
  ELSE IF StartsWith(s, sub) THEN RemoveAll(SubSeq(s, Len(sub) + 1, Len(s)), sub)
  ELSE <<Head(s)>> \o RemoveAll(Tail(s), sub)

\* The markers of the .soft format.
SampleMarker == <<"^","S","A","M","P","L","E">>

SampleFieldPrefix == <<"!","S","a","m","p","l","e","_">>

SampleTableBegin ==
  <<"!","s","a","m","p","l","e","_","t","a","b","l","e","_","b","e","g","i","n">>

SampleIdKey == <<"s","a","m","p","l","e","_","i","d">>

\* d.setdefault(key, value): the first value of a key is kept.
DictSetDefault(d, key, value) ==
  IF \E i \in 1..Len(d) : d[i][1] = key THEN d ELSE Append(d, <<key, value>>)

\* d[key] = value
DictSet(d, key, value) ==
  IF \E i \in 1..Len(d) : d[i][1] = key
  THEN [i \in 1..Len(d) |-> IF d[i][1] = key THEN <<key, value>> ELSE d[i]]
  ELSE Append(d, <<key, value>>)

\* key in d
DictHas(d, key) == \E i \in 1..Len(d) : d[i][1] = key

\* d[key]
DictGet(d, key) == d[CHOOSE i \in 1..Len(d) : d[i][1] = key][2]

\* key = parts[0].replace('!Sample_', '').lower()
FieldKey(head) == Lower(RemoveAll(head, SampleFieldPrefix))

\* The scan going on after the sample-table-begin marker.
EndsScanNever(line) == FALSE

\* elif line.startswith('!sample_table_begin'): break
EndsScan(line) == StartsWith(line, SampleTableBegin)

\* The state of the scan before any line.
ScanStart ==
  [metadata_list |-> <<>>, current_sample |-> <<>>,
   in_sample_section |-> FALSE, raised |-> FALSE]

\* The body of the `for line in lines' loop on one line (lines 222-236).
ScanLine(st, raw) ==
  LET line == Strip(raw)
  IN  IF StartsWith(line, SampleMarker)
      THEN LET pieces == SplitOn(line, "=")
               flushed == IF st.current_sample # <<>>
                          THEN Append(st.metadata_list, st.current_sample)
                          ELSE st.metadata_list
           IN  IF Len(pieces) < 2
               THEN [st EXCEPT !.metadata_list = flushed, !.raised = TRUE]
               ELSE [st EXCEPT !.metadata_list = flushed,
                               !.current_sample = << <<SampleIdKey, Strip(pieces[2])>> >>,
                               !.in_sample_section = TRUE]
      ELSE IF StartsWith(line, SampleFieldPrefix) /\ st.in_sample_section
      THEN LET parts == SplitFirst(line, "=")
           IN  IF Len(parts) = 2
               THEN [st EXCEPT !.current_sample =
                       DictSet(st.current_sample, FieldKey(parts[1]), Strip(parts[2]))]
               ELSE st
      ELSE st

RECURSIVE ScanSoft(_, _, _)
\* The loop over the lines from line i on: it ends at the end of the
\* input, at the marker (break) or where a line raises.
ScanSoft(lines, i, st) ==
  IF i > Len(lines) \/ st.raised THEN st
  ELSE LET line == Strip(lines[i])
       IN  IF ~StartsWith(line, SampleMarker)
              /\ ~StartsWith(line, SampleFieldPrefix)
              /\ EndsScan(line)
           THEN st
           ELSE ScanSoft(lines, i + 1, ScanLine(st, lines[i]))

RECURSIVE UnionOfKeys(_)
\* The columns of pd.DataFrame(records): the keys in order of first use.
UnionOfKeys(records) ==
  IF records = <<>> THEN <<>>
  ELSE LET init == UnionOfKeys(SubSeq(records, 1, Len(records) - 1))
           last == records[Len(records)]
           new == SelectSeq([i \in 1..Len(last) |-> last[i][1]],
                            LAMBDA k : \A j \in 1..Len(init) : init[j] # k)
       IN  init \o new

\* pd.DataFrame(records): a field a record lacks is NaN.
DataFrameOf(records) ==
  LET columns == UnionOfKeys(records)
  IN  [columns |-> columns,
       rows |-> [i \in 1..Len(records) |->
                   [j \in 1..Len(columns) |->
                      IF DictHas(records[i], columns[j])
                      THEN DictGet(records[i], columns[j])
                      ELSE NaN]]]

\* _parse_soft_file: the tables returned, or raised = TRUE (IndexError).
ParseSoftFile(text) ==
  LET st == ScanSoft(SplitOn(text, "\n"), 1, ScanStart)
      metadata_list == IF st.current_sample # <<>>
                       THEN Append(st.metadata_list, st.current_sample)
                       ELSE st.metadata_list
  IN  IF st.raised
      THEN [raised |-> TRUE, metadata |-> None, expression |-> None]
      ELSE [raised |-> FALSE, metadata |-> DataFrameOf(metadata_list),
            expression |-> None]

---------------------------------------------------------------------------
\* DataProcessor: the .txt parser.  The expression table returned by
\* df.set_index(first column) is a record [index_name, index, columns,
\* rows].

\* str(n) for a count 1..9.
DigitString(n) == <<(<<"1","2","3","4","5","6","7","8","9">>)[n]>>

\* The header as read_csv names the columns: the k-th repeat of a name X
\* is X.k.
MangleDupes(header) ==
  [j \in 1..Len(header) |->
     LET before == Cardinality({k \in 1..(j - 1) : header[k] = header[j]})
     IN  IF before = 0 THEN header[j]
         ELSE header[j] \o <<".">> \o DigitString(before)]

\* One data line of a tab-delimited file as a row of `width' cells: an
\* empty field is NaN, a field the line lacks is NaN.
CsvRow(line, width) ==
  LET fields == SplitOn(line, "\t")
  IN  [j \in 1..width |->
         IF j > Len(fields) \/ fields[j] = <<>> THEN NaN ELSE fields[j]]

\* pd.read_csv(io.StringIO(content), sep='\t'): blank lines are skipped,
\* the first line is the header; no line at all raises EmptyDataError.
ReadCsv(text) ==
  LET lines == SelectSeq(SplitOn(text, "\n"), LAMBDA l : l # <<>>)
  IN  IF lines = <<>>
      THEN [raised |-> TRUE, df |-> None]
      ELSE LET columns == MangleDupes(SplitOn(lines[1], "\t"))
           IN  [raised |-> FALSE,
                df |-> [columns |-> columns,
                        rows |-> [i \in 1..(Len(lines) - 1) |->
                                    CsvRow(lines[i + 1], Len(columns))]]]

GsmPrefix == <<"g","s","m">>

SourceKey == <<"s","o","u","r","c","e">>

UploadedFile == <<"u","p","l","o","a","d","e","d","_","f","i","l","e">>

\* The metadata test with the column names compared as written.
IsMetadataTableCaseSensitive(columns) ==
  \/ \E j \in 1..Len(columns) : columns[j] = SampleIdKey
  \/ \E j \in 1..Len(columns) : Contains(columns[j], GsmPrefix)

\* 'sample_id' in df.columns.str.lower()
\*   or any('gsm' in col.lower() for col in df.columns)
IsMetadataTable(columns) ==
  \/ \E j \in 1..Len(columns) : Lower(columns[j]) = SampleIdKey
  \/ \E j \in 1..Len(columns) : Contains(Lower(columns[j]), GsmPrefix)

\* The sample columns with the first column among them.
SampleColumnsAll(columns) == columns

\* sample_columns = [col for col in df.columns if col != df.columns[0]]
SampleColumns(columns) == SelectSeq(columns, LAMBDA col : col # columns[1])

\* df.set_index(df.columns[0])
SetIndexFirst(df) ==
  [index_name |-> df.columns[1],
   index |-> [i \in 1..Len(df.rows) |-> df.rows[i][1]],
   columns |-> Tail(df.columns),
   rows |-> [i \in 1..Len(df.rows) |-> Tail(df.rows[i])]]

\* _parse_txt_file: the tables returned, or raised = TRUE.
ParseTxtFile(text) ==
  LET read == ReadCsv(text)
  IN  IF read.raised
      THEN [raised |-> TRUE, metadata |-> None, expression |-> None]
      ELSE IF IsMetadataTable(read.df.columns)
      THEN [raised |-> FALSE, metadata |-> read.df, expression |-> None]
      ELSE LET sample_columns == SampleColumns(read.df.columns)
               metadata_list ==
                 [i \in 1..Len(sample_columns) |->
                    << <<SampleIdKey, sample_columns[i]>>,
                       <<SourceKey, UploadedFile>> >>]
           IN  [raised |-> FALSE,
                metadata |-> DataFrameOf(metadata_list),
                expression |-> SetIndexFirst(read.df)]

---------------------------------------------------------------------------
\* DataProcessor: the missing-data report and the recommendations.  A
\* dict with fixed keys is a record, the empty dict the record of no
\* field; a dict keyed by column names is a sequence of <<key, value>>
\* pairs in insertion order.  A float is the rational it stands for, a
\* record [num, den] in lowest terms.  The characters of the messages
\* that are not ASCII are written by code point ("U+2705").

\* {}
EmptyDict == [k \in {} |-> 0]

RECURSIVE GCD(_, _)
GCD(a, b) == IF b = 0 THEN a ELSE GCD(b, a % b)

\* The number n / d.
Rational(n, d) ==
  LET g == GCD(n, d) IN [num |-> n \div g, den |-> d \div g]

\* (missing / total) * 100
Percentage(missing, total) == Rational(missing * 100, total)

\* a > b for a rational a and an integer b
Above(a, b) == a.num > b * a.den

\* a >= b for a rational a and an integer b
AtLeast(a, b) == a.num >= b * a.den

\* DataFrame.empty: no row or no column.
Empty(df) == Len(df.rows) = 0 \/ Len(df.columns) = 0

\* df.isnull().sum(): the Series of the missing counts, by column.
IsNullSum(df) ==
  [j \in 1..Len(df.columns) |->
     <<df.columns[j],
       Cardinality({i \in 1..Len(df.rows) : df.rows[i][j] = NaN})>>]

RECURSIVE SeriesSum(_)
\* Series.sum()
SeriesSum(series) ==
  IF series = <<>> THEN 0 ELSE Head(series)[2] + SeriesSum(Tail(series))

RECURSIVE DictUpdate(_, _)
\* d.update(items): the items written in order.
DictUpdate(d, items) ==
  IF items = <<>> THEN d
  ELSE DictUpdate(DictSet(d, Head(items)[1], Head(items)[2]), Tail(items))

\* Series.to_dict()
ToDict(series) == DictUpdate(<<>>, series)

\* The number of expression columns in the breakdown by column.
ExpressionColumnLimit == 20

\* Series.head(n)
SeriesHead(series, n) ==
  SubSeq(series, 1, IF Len(series) < n THEN Len(series) ELSE n)

\* The breakdown of the expression table with every column in it.
ExpressionByColumnAll(series) == ToDict(series)

\* expression_missing.head(20).to_dict()
ExpressionByColumn(series) == ToDict(SeriesHead(series, ExpressionColumnLimit))

\* The entry of the report for one table.
MissingEntry(df, by_column) ==
  LET total == Len(df.rows) * Len(df.columns)
      missing_total == SeriesSum(IsNullSum(df))
  IN  [total_cells |-> total,
       missing_cells |-> missing_total,
       missing_percentage |->
         IF total > 0 THEN Percentage(missing_total, total) ELSE Rational(0, 1),
       by_column |-> by_column]

\* d.get('total_cells', 0)
GetTotalCells(d) == IF "total_cells" \in DOMAIN d THEN d.total_cells ELSE 0

\* generate_missing_data_report
GenerateMissingDataReport(metadata_df, expression_data) ==
  LET has_metadata == ~Empty(metadata_df)
      has_expression ==
        IF expression_data = None THEN FALSE ELSE ~Empty(expression_data)
      metadata_missing ==
        IF has_metadata
        THEN MissingEntry(metadata_df, ToDict(IsNullSum(metadata_df)))
        ELSE EmptyDict
      expression_missing ==
        IF has_expression
        THEN MissingEntry(expression_data,
                          ExpressionByColumn(IsNullSum(expression_data)))
        ELSE EmptyDict
      total_missing ==
        (IF has_metadata THEN metadata_missing.missing_cells ELSE 0)
        + (IF has_expression THEN expression_missing.missing_cells ELSE 0)
      total_cells ==
        GetTotalCells(metadata_missing) + GetTotalCells(expression_missing)
  IN  [metadata_missing |-> metadata_missing,
       expression_missing |-> expression_missing,
       total_missing |-> total_missing,
       completion_rate |->
         IF total_cells > 0
         THEN Percentage(total_cells - total_missing, total_cells)
         ELSE Rational(0, 1),
       missing_by_column |->
         IF has_metadata
         THEN DictUpdate(<<>>, ToDict(IsNullSum(metadata_df)))
         ELSE <<>>]

DecimalDigits == <<"0","1","2","3","4","5","6","7","8","9">>

RECURSIVE Decimal(_)
\* str(n) for n >= 0
Decimal(n) ==
  IF n < 10 THEN <<DecimalDigits[n + 1]>>
  ELSE Decimal(n \div 10) \o <<DecimalDigits[(n % 10) + 1]>>

ExcellentMessage ==
  <<"U+2705"," ","E","x","c","e","l","l","e","n","t"," ","d","a","t",
     "a"," ","q","u","a","l","i","t","y","!"," ","M","i","s","s","i",
     "n","g"," ","d","a","t","a"," ","i","s"," ","m","i","n","i","m",
     "a","l",".">>

GoodMessage ==
  <<"U+2705"," ","G","o","o","d"," ","d","a","t","a"," ","q","u","a",
     "l","i","t","y","."," ","S","o","m","e"," ","m","i","s","s","i",
     "n","g"," ","v","a","l","u","e","s"," ","p","r","e","s","e","n",
     "t"," ","b","u","t"," ","m","a","n","a","g","e","a","b","l","e",
     ".">>

ModerateMessage ==
  <<"U+26A0","U+FE0F"," ","M","o","d","e","r","a","t","e"," ","d","a",
     "t","a"," ","q","u","a","l","i","t","y","."," ","C","o","n","s",
     "i","d","e","r"," ","i","m","p","u","t","a","t","i","o","n"," ",
     "s","t","r","a","t","e","g","i","e","s"," ","f","o","r"," ","m",
     "i","s","s","i","n","g"," ","v","a","l","u","e","s",".">>

PoorMessage ==
  <<"U+274C"," ","P","o","o","r"," ","d","a","t","a"," ","q","u","a",
     "l","i","t","y","."," ","S","i","g","n","i","f","i","c","a","n",
     "t"," ","m","i","s","s","i","n","g"," ","d","a","t","a"," ","m",
     "a","y"," ","i","m","p","a","c","t"," ","a","n","a","l","y","s",
     "i","s",".">>

ColumnsMessagePrefix ==
  <<"U+1F4CA"," ","C","o","l","u","m","n","s"," ","w","i","t","h"," ",
     "m","i","s","s","i","n","g"," ","d","a","t","a",":"," ">>

MoreColumnsPrefix == <<"U+1F4CA"," ","A","n","d"," ">>

MoreColumnsSuffix ==
  <<" ","m","o","r","e"," ","c","o","l","u","m","n","s"," ","w","i","t",
     "h"," ","m","i","s","s","i","n","g"," ","d","a","t","a",".">>

OrganismMessage ==
  <<"U+1F9EC"," ","O","r","g","a","n","i","s","m"," ","i","n","f","o",
     "r","m","a","t","i","o","n"," ","h","a","s"," ","m","i","s","s",
     "i","n","g"," ","v","a","l","u","e","s","."," ","C","o","n","s",
     "i","d","e","r"," ","m","a","n","u","a","l"," ","c","u","r","a",
     "t","i","o","n"," ","f","o","r"," ","b","e","t","t","e","r"," ",
     "a","n","a","l","y","s","i","s",".">>

OrganismWord == <<"o","r","g","a","n","i","s","m">>

\* The tier chosen with each threshold value in the lower tier.
TierMessageAbove(completion_rate) ==
  IF Above(completion_rate, 95) THEN ExcellentMessage
  ELSE IF Above(completion_rate, 85) THEN GoodMessage
  ELSE IF Above(completion_rate, 70) THEN ModerateMessage
  ELSE PoorMessage

\* The tier message for the completion rate.
TierMessage(completion_rate) ==
  IF AtLeast(completion_rate, 95) THEN ExcellentMessage
  ELSE IF AtLeast(completion_rate, 85) THEN GoodMessage
  ELSE IF AtLeast(completion_rate, 70) THEN ModerateMessage
  ELSE PoorMessage

\* The number of column names listed in the message.
ListedColumns == 5

\* The column message with every name listed.
ColumnMessagesUnlimited(high_missing_columns) ==
  IF high_missing_columns = <<>> THEN <<>>
  ELSE <<ColumnsMessagePrefix \o Join(<<",", " ">>, high_missing_columns)>>

\* The messages about the columns with missing data.
ColumnMessages(high_missing_columns) ==
  IF high_missing_columns = <<>> THEN <<>>
  ELSE <<ColumnsMessagePrefix
           \o Join(<<",", " ">>,
                   SubSeq(high_missing_columns, 1,
                          IF Len(high_missing_columns) < ListedColumns
                          THEN Len(high_missing_columns) ELSE ListedColumns))>>
       \o (IF Len(high_missing_columns) > ListedColumns
           THEN <<MoreColumnsPrefix
                    \o Decimal(Len(high_missing_columns) - ListedColumns)
                    \o MoreColumnsSuffix>>
           ELSE <<>>)

\* generate_quality_recommendations
GenerateQualityRecommendations(missing_report) ==
  LET missing_by_column == missing_report.missing_by_column
      pairs == SelectSeq(missing_by_column, LAMBDA item : item[2] > 0)
      high_missing_columns == [i \in 1..Len(pairs) |-> pairs[i][1]]
  IN  <<TierMessage(missing_report.completion_rate)>>
      \o ColumnMessages(high_missing_columns)
      \o (IF \E i \in 1..Len(missing_by_column) :
                Contains(Lower(missing_by_column[i][1]), OrganismWord)
          THEN <<OrganismMessage>> ELSE <<>>)

---------------------------------------------------------------------------
\* DataProcessor: the expression cleaner.  A numeric cell is the tuple
\* <<"float", num, den>> of the rational its decimal token stands for.

RECURSIVE DigitsValue(_)
\* int(digits)
DigitsValue(digits) ==
  IF digits = <<>> THEN 0
  ELSE DigitsValue(SubSeq(digits, 1, Len(digits) - 1)) * 10
       + ((CHOOSE d \in 1..10 : DecimalDigits[d] = digits[Len(digits)]) - 1)

RECURSIVE PowerOfTen(_)
PowerOfTen(n) == IF n = 0 THEN 1 ELSE 10 * PowerOfTen(n - 1)

\* The token is a decimal numeral: a sign or none, digits, and a period
\* with digits or none.
IsDecimal(token) ==
  LET unsigned == IF token # <<>> /\ Head(token) \in {"+", "-"}
                  THEN Tail(token) ELSE token
      parts == SplitOn(unsigned, ".")
  IN  /\ Len(parts) \in {1, 2}
      /\ \A k \in 1..Len(parts) :
           /\ parts[k] # <<>>
           /\ \A i \in 1..Len(parts[k]) : parts[k][i] \in Digits

\* The number a decimal numeral stands for.
DecimalValue(token) ==
  LET negative == Head(token) = "-"
      unsigned == IF Head(token) \in {"+", "-"} THEN Tail(token) ELSE token
      parts == SplitOn(unsigned, ".")
      fraction == IF Len(parts) = 2 THEN parts[2] ELSE <<>>
      scale == PowerOfTen(Len(fraction))
      magnitude == DigitsValue(parts[1]) * scale + DigitsValue(fraction)
      value == Rational(magnitude, scale)
  IN  <<"float", IF negative THEN 0 - value.num ELSE value.num, value.den>>

\* The conversion that leaves a token that is no number as it is.
ToNumericIgnore(cell) ==
  IF cell = NaN THEN NaN
  ELSE IF IsDecimal(cell) THEN DecimalValue(cell) ELSE cell

\* pd.to_numeric(..., errors='coerce'), cell by cell: a token that is no
\* number is NaN.
ToNumeric(cell) ==
  IF cell = NaN THEN NaN
  ELSE IF IsDecimal(cell) THEN DecimalValue(cell) ELSE NaN

\* df.dropna(how='all') of an indexed table: the rows with a cell that is
\* not NaN.
DropNaRows(df) ==
  LET keep == SelectSeq([i \in 1..Len(df.rows) |-> i],
                        LAMBDA i : \E j \in 1..Len(df.columns) : df.rows[i][j] # NaN)
  IN  [index_name |-> df.index_name,
       index |-> [a \in 1..Len(keep) |-> df.index[keep[a]]],
       columns |-> df.columns,
       rows |-> [a \in 1..Len(keep) |-> df.rows[keep[a]]]]

\* df.dropna(axis=1, how='all'): the columns with a cell that is not NaN.
DropNaColumns(df) ==
  LET keep == SelectSeq([j \in 1..Len(df.columns) |-> j],
                        LAMBDA j : \E i \in 1..Len(df.rows) : df.rows[i][j] # NaN)
  IN  [index_name |-> df.index_name,
       index |-> df.index,
       columns |-> [b \in 1..Len(keep) |-> df.columns[keep[b]]],
       rows |-> [i \in 1..Len(df.rows) |->
                   [b \in 1..Len(keep) |-> df.rows[i][keep[b]]]]]

\* clean_expression_data
CleanExpressionData(expression_data) ==
  IF expression_data = None THEN None
  ELSE LET df == [index_name |-> expression_data.index_name,
                  index |-> expression_data.index,
                  columns |-> expression_data.columns,
                  rows |-> [i \in 1..Len(expression_data.rows) |->
                              [j \in 1..Len(expression_data.columns) |->
                                 ToNumeric(expression_data.rows[i][j])]]]
       IN  DropNaColumns(DropNaRows(df))

---------------------------------------------------------------------------
\* DataProcessor: parse_geo_file.  The bytes of a file are the text they
\* decode to, or InvalidUtf8.  An exception is a record [type, message,
\* context]: its class, its message and the class of the exception that
\* was being handled when it was raised.

\* b'\xff': bytes that are not UTF-8.
InvalidUtf8 == <<"<0xff>">>

SoftSuffix == <<".","s","o","f","t">>

TxtSuffix == <<".","t","x","t">>

ParseErrorPrefix ==
  <<"E","r","r","o","r"," ","p","a","r","s","i","n","g"," ","f","i","l",
     "e"," ">>

UnsupportedMessage ==
  <<"U","n","s","u","p","p","o","r","t","e","d"," ","f","i","l","e"," ",
     "f","o","r","m","a","t","."," ","P","l","e","a","s","e"," ","u",
     "s","e"," ",".","s","o","f","t"," ","o","r"," ",".","t","x","t",
     " ","f","i","l","e","s",".">>

\* str(UnicodeDecodeError) for b'\xff'
DecodeErrorMessage ==
  <<"'","u","t","f","-","8","'"," ","c","o","d","e","c"," ","c","a","n",
     "'","t"," ","d","e","c","o","d","e"," ","b","y","t","e"," ","0",
     "x","f","f"," ","i","n"," ","p","o","s","i","t","i","o","n"," ",
     "0",":"," ","i","n","v","a","l","i","d"," ","s","t","a","r","t",
     " ","b","y","t","e">>

\* str(IndexError) of line.split('=')[1]
IndexErrorMessage ==
  <<"l","i","s","t"," ","i","n","d","e","x"," ","o","u","t"," ","o","f",
     " ","r","a","n","g","e">>

\* The message of the exception _parse_txt_file raises for a file of no
\* line.
TxtErrorMessage ==
  <<"E","r","r","o","r"," ","p","a","r","s","i","n","g"," ","T","X","T",
     " ","f","i","l","e",":"," ","N","o"," ","c","o","l","u","m","n",
     "s"," ","t","o"," ","p","a","r","s","e"," ","f","r","o","m"," ",
     "f","i","l","e">>

\* except Exception as e: raise Exception(f"Error parsing file {filename}: {e}")
ParseError(name, context, message) ==
  [raised |-> TRUE,
   error |-> [type |-> "Exception",
              message |-> ParseErrorPrefix \o name \o <<":", " ">> \o message,
              context |-> context],
   metadata |-> None,
   expression |-> None]

\* parse_geo_file
ParseGeoFile(file_content, name) ==
  IF file_content = InvalidUtf8
  THEN ParseError(name, "UnicodeDecodeError", DecodeErrorMessage)
  ELSE IF EndsWith(name, SoftSuffix)
  THEN LET parsed == ParseSoftFile(file_content)
       IN  IF parsed.raised
           THEN ParseError(name, "IndexError", IndexErrorMessage)
           ELSE [raised |-> FALSE, error |-> None,
                 metadata |-> parsed.metadata, expression |-> parsed.expression]
  ELSE IF EndsWith(name, TxtSuffix)
  THEN LET parsed == ParseTxtFile(file_content)
       IN  IF parsed.raised
           THEN ParseError(name, "Exception", TxtErrorMessage)
           ELSE [raised |-> FALSE, error |-> None,
                 metadata |-> parsed.metadata, expression |-> parsed.expression]
  ELSE ParseError(name, "ValueError", UnsupportedMessage)

---------------------------------------------------------------------------
\* DataProcessor: extract_geo_data.  A GEO object is a record with a field
\* for each attribute it has: name, metadata, subsets, table for a GDS;
\* gsms, pivot_samples for a GSE.  A metadata dict maps a key to a list of
\* strings; subsets and gsms are dicts from a name to a record with the
\* field metadata (and table, for a GSM).  A table is a record
\* [copy_raises, columns, rows]; pivot_samples is the record [raises,
\* result] of what the call does.

\* The fields of the sample record of a GDS subset after sample_id: the
\* metadata (of the subset or of the GDS) and the key each is read from,
\* taken as the first element of the list or as the list joined.
GdsFields ==
  << [field |-> <<"t","i","t","l","e">>,
      of |-> "subset", key |-> <<"d","e","s","c","r","i","p","t","i","o","n">>, how |-> "first"],
     [field |-> <<"o","r","g","a","n","i","s","m">>,
      of |-> "gds", key |-> <<"s","a","m","p","l","e","_","o","r","g","a","n","i","s","m">>, how |-> "first"],
     [field |-> <<"s","o","u","r","c","e","_","n","a","m","e">>,
      of |-> "subset", key |-> <<"t","y","p","e">>, how |-> "first"],
     [field |-> <<"c","h","a","r","a","c","t","e","r","i","s","t","i","c","s">>,
      of |-> "subset", key |-> <<"d","e","s","c","r","i","p","t","i","o","n">>, how |-> "first"],
     [field |-> <<"d","a","t","a","s","e","t","_","i","d">>,
      of |-> "gds", key |-> <<"n","a","m","e">>, how |-> "name"],
     [field |-> <<"p","l","a","t","f","o","r","m","_","i","d">>,
      of |-> "gds", key |-> <<"p","l","a","t","f","o","r","m">>, how |-> "first"],
     [field |-> <<"s","u","b","m","i","s","s","i","o","n","_","d","a","t","e">>,
      of |-> "gds", key |-> <<"d","a","t","e">>, how |-> "first"],
     [field |-> <<"d","e","s","c","r","i","p","t","i","o","n">>,
      of |-> "gds", key |-> <<"s","u","m","m","a","r","y">>, how |-> "join"],
     [field |-> <<"c","o","n","t","a","c","t","_","n","a","m","e">>,
      of |-> "gds", key |-> <<"c","o","n","t","r","i","b","u","t","o","r">>, how |-> "join"],
     [field |-> <<"d","a","t","a","s","e","t","_","t","y","p","e">>,
      of |-> "gds", key |-> <<"t","y","p","e">>, how |-> "first"],
     [field |-> <<"v","a","l","u","e","_","t","y","p","e">>,
      of |-> "gds", key |-> <<"v","a","l","u","e","_","t","y","p","e">>, how |-> "first"],
     [field |-> <<"r","e","f","e","r","e","n","c","e","_","s","e","r","i","e","s">>,
      of |-> "gds", key |-> <<"r","e","f","e","r","e","n","c","e","_","s","e","r","i","e","s">>, how |-> "first"],
     [field |-> <<"p","u","b","m","e","d","_","i","d">>,
      of |-> "gds", key |-> <<"p","u","b","m","e","d","_","i","d">>, how |-> "join"] >>

\* The fields of the sample record of a GSM after sample_id.
GseFields ==
  << [field |-> <<"t","i","t","l","e">>,
      of |-> "gsm", key |-> <<"t","i","t","l","e">>, how |-> "first"],
     [field |-> <<"o","r","g","a","n","i","s","m">>,
      of |-> "gsm", key |-> <<"o","r","g","a","n","i","s","m","_","c","h","1">>, how |-> "first"],
     [field |-> <<"s","o","u","r","c","e","_","n","a","m","e">>,
      of |-> "gsm", key |-> <<"s","o","u","r","c","e","_","n","a","m","e","_","c","h","1">>, how |-> "first"],
     [field |-> <<"c","h","a","r","a","c","t","e","r","i","s","t","i","c","s">>,
      of |-> "gsm", key |-> <<"c","h","a","r","a","c","t","e","r","i","s","t","i","c","s","_","c","h","1">>, how |-> "join"],
     [field |-> <<"t","r","e","a","t","m","e","n","t">>,
      of |-> "gsm", key |-> <<"t","r","e","a","t","m","e","n","t","_","p","r","o","t","o","c","o","l","_","c","h","1">>, how |-> "first"],
     [field |-> <<"g","r","o","w","t","h","_","p","r","o","t","o","c","o","l">>,
      of |-> "gsm", key |-> <<"g","r","o","w","t","h","_","p","r","o","t","o","c","o","l","_","c","h","1">>, how |-> "first"],
     [field |-> <<"e","x","t","r","a","c","t","_","p","r","o","t","o","c","o","l">>,
      of |-> "gsm", key |-> <<"e","x","t","r","a","c","t","_","p","r","o","t","o","c","o","l","_","c","h","1">>, how |-> "first"],
     [field |-> <<"l","a","b","e","l","_","p","r","o","t","o","c","o","l">>,
      of |-> "gsm", key |-> <<"l","a","b","e","l","_","p","r","o","t","o","c","o","l","_","c","h","1">>, how |-> "first"],
     [field |-> <<"h","y","b","_","p","r","o","t","o","c","o","l">>,
      of |-> "gsm", key |-> <<"h","y","b","_","p","r","o","t","o","c","o","l">>, how |-> "first"],
     [field |-> <<"s","c","a","n","_","p","r","o","t","o","c","o","l">>,
      of |-> "gsm", key |-> <<"s","c","a","n","_","p","r","o","t","o","c","o","l">>, how |-> "first"],
     [field |-> <<"d","e","s","c","r","i","p","t","i","o","n">>,
      of |-> "gsm", key |-> <<"d","e","s","c","r","i","p","t","i","o","n">>, how |-> "first"],
     [field |-> <<"d","a","t","a","_","p","r","o","c","e","s","s","i","n","g">>,
      of |-> "gsm", key |-> <<"d","a","t","a","_","p","r","o","c","e","s","s","i","n","g">>, how |-> "join"],
     [field |-> <<"p","l","a","t","f","o","r","m","_","i","d">>,
      of |-> "gsm", key |-> <<"p","l","a","t","f","o","r","m","_","i","d">>, how |-> "first"],
     [field |-> <<"c","o","n","t","a","c","t","_","n","a","m","e">>,
      of |-> "gsm", key |-> <<"c","o","n","t","a","c","t","_","n","a","m","e">>, how |-> "first"],
     [field |-> <<"c","o","n","t","a","c","t","_","e","m","a","i","l">>,
      of |-> "gsm", key |-> <<"c","o","n","t","a","c","t","_","e","m","a","i","l">>, how |-> "first"],
     [field |-> <<"c","o","n","t","a","c","t","_","i","n","s","t","i","t","u","t","e">>,
      of |-> "gsm", key |-> <<"c","o","n","t","a","c","t","_","i","n","s","t","i","t","u","t","e">>, how |-> "first"],
     [field |-> <<"s","u","b","m","i","s","s","i","o","n","_","d","a","t","e">>,
      of |-> "gsm", key |-> <<"s","u","b","m","i","s","s","i","o","n","_","d","a","t","e">>, how |-> "first"],
     [field |-> <<"l","a","s","t","_","u","p","d","a","t","e","_","d","a","t","e">>,
      of |-> "gsm", key |-> <<"l","a","s","t","_","u","p","d","a","t","e","_","d","a","t","e">>, how |-> "first"] >>

IdRef == <<"I","D","_","R","E","F">>

ValueColumn == <<"V","A","L","U","E">>

ListSeparator == <<" ","|"," ">>

\* metadata.get(key, default)
MetadataGet(md, key, default) ==
  IF DictHas(md, key) THEN DictGet(md, key) ELSE default

\* Reading a field raises IndexError: metadata.get(key, [''])[0] of an
\* empty list.
FieldRaises(f, md) ==
  f.how = "first" /\ MetadataGet(md, f.key, << <<>> >>) = <<>>

\* The value of a field of the sample record.
FieldValue(f, md, name) ==
  IF f.how = "name" THEN name
  ELSE IF f.how = "first" THEN MetadataGet(md, f.key, << <<>> >>)[1]
  ELSE Join(ListSeparator, MetadataGet(md, f.key, <<>>))

RECURSIVE AddAdditional(_, _)
\* for key, value in metadata.items(): if key not in sample_data: ...
AddAdditional(sample_data, items) ==
  IF items = <<>> THEN sample_data
  ELSE AddAdditional(
         IF DictHas(sample_data, Head(items)[1]) THEN sample_data
         ELSE DictSet(sample_data, Head(items)[1],
                      Join(ListSeparator, Head(items)[2])),
         Tail(items))

\* The sample record of one subset of a GDS.
GdsSampleData(gds, subset_name, subset) ==
  AddAdditional(
    << <<SampleIdKey, subset_name>> >>
      \o [k \in 1..Len(GdsFields) |->
            <<GdsFields[k].field,
              FieldValue(GdsFields[k],
                         IF GdsFields[k].of = "subset" THEN subset.metadata
                         ELSE gds.metadata,
                         gds.name)>>],
    subset.metadata)

\* The sample record of one GSM of a GSE.
GseSampleData(gsm_name, gsm) ==
  AddAdditional(
    << <<SampleIdKey, gsm_name>> >>
      \o [k \in 1..Len(GseFields) |->
            <<GseFields[k].field, FieldValue(GseFields[k], gsm.metadata, gsm_name)>>],
    gsm.metadata)

\* df.set_index(name) raises: no column of that name (KeyError), or more
\* than one (ValueError).
SetIndexRaises(df, name) ==
  Cardinality({j \in 1..Len(df.columns) : df.columns[j] = name}) # 1

\* df.set_index(name)
SetIndex(df, name) ==
  LET c == CHOOSE j \in 1..Len(df.columns) : df.columns[j] = name
      others == SelectSeq([j \in 1..Len(df.columns) |-> j], LAMBDA j : j # c)
  IN  [index_name |-> name,
       index |-> [i \in 1..Len(df.rows) |-> df.rows[i][c]],
       columns |-> [b \in 1..Len(others) |-> df.columns[others[b]]],
       rows |-> [i \in 1..Len(df.rows) |->
                   [b \in 1..Len(others) |-> df.rows[i][others[b]]]]]

\* gds.table.copy()
TableCopy(table) == [columns |-> table.columns, rows |-> table.rows]

\* The expression table of a GDS: what expression_data holds when the try
\* block is left, by its end or by an exception.
GdsExpression(gds) ==
  IF "table" \notin DOMAIN gds THEN None
  ELSE IF gds.table = None THEN None
  ELSE IF gds.table.copy_raises THEN None
  ELSE LET expression_data == TableCopy(gds.table)
       IN  IF \E j \in 1..Len(expression_data.columns) :
                  expression_data.columns[j] = IdRef
           THEN IF SetIndexRaises(expression_data, IdRef)
                THEN expression_data
                ELSE SetIndex(expression_data, IdRef)
           ELSE expression_data

\* _extract_gds_data: the tables returned, or raised = TRUE (IndexError).
ExtractGdsData(gds) ==
  LET subsets == gds.subsets
  IN  IF \E i \in 1..Len(subsets) : \E k \in 1..Len(GdsFields) :
           FieldRaises(GdsFields[k],
                       IF GdsFields[k].of = "subset" THEN subsets[i][2].metadata
                       ELSE gds.metadata)
      THEN [raised |-> TRUE, type |-> "IndexError", message |-> IndexErrorMessage]
      ELSE [raised |-> FALSE,
            metadata |-> DataFrameOf([i \in 1..Len(subsets) |->
                           GdsSampleData(gds, subsets[i][1], subsets[i][2])]),
            expression |-> GdsExpression(gds)]

\* pd.concat(sample_tables, axis=1) of the VALUE series of the samples,
\* each named by its sample and indexed by ID_REF.  The sample tables of
\* the model have the same ID_REF column, so the indexes are equal and
\* the result keeps that index.
ConcatColumns(names, series) ==
  [index_name |-> IdRef,
   index |-> series[1].index,
   columns |-> names,
   rows |-> [i \in 1..Len(series[1].index) |->
               [b \in 1..Len(series) |-> series[b].rows[i][1]]]]

\* sample_table.set_index('ID_REF')['VALUE']
ValueSeries(table) ==
  LET indexed == SetIndex(TableCopy(table), IdRef)
      c == CHOOSE j \in 1..Len(indexed.columns) : indexed.columns[j] = ValueColumn
  IN  [index |-> indexed.index,
       rows |-> [i \in 1..Len(indexed.rows) |-> <<indexed.rows[i][c]>>]]

\* The expression table of a GSE: pivot_samples where the object has it,
\* else the VALUE columns of the sample tables; None when a step raised.
GseExpression(gse) ==
  IF "pivot_samples" \in DOMAIN gse
  THEN IF gse.pivot_samples.raises THEN None ELSE gse.pivot_samples.result
  ELSE IF Len(gse.gsms) > 0
  THEN LET \* hasattr(gsm, 'table') and gsm.table is not None
           with_table == SelectSeq([i \in 1..Len(gse.gsms) |-> i],
                           LAMBDA i : IF "table" \in DOMAIN gse.gsms[i][2]
                                      THEN gse.gsms[i][2].table # None
                                      ELSE FALSE)
           \* 'VALUE' in sample_table.columns
           has_value(table) ==
             \E j \in 1..Len(table.columns) : table.columns[j] = ValueColumn
           step_raises ==
             \E k \in 1..Len(with_table) :
                LET table == gse.gsms[with_table[k]][2].table
                IN  \/ table.copy_raises
                    \/ has_value(table) /\ SetIndexRaises(table, IdRef)
           taken == SelectSeq(with_table,
                      LAMBDA i : has_value(gse.gsms[i][2].table))
       IN  IF step_raises THEN None
           ELSE IF taken = <<>> THEN None
           ELSE ConcatColumns([k \in 1..Len(taken) |-> gse.gsms[taken[k]][1]],
                              [k \in 1..Len(taken) |->
                          ValueSeries(gse.gsms[taken[k]][2].table)])
  ELSE None

\* _extract_gse_data: the tables returned, or raised = TRUE (IndexError).
ExtractGseData(gse) ==
  LET gsms == gse.gsms
  IN  IF \E i \in 1..Len(gsms) : \E k \in 1..Len(GseFields) :
           FieldRaises(GseFields[k], gsms[i][2].metadata)
      THEN [raised |-> TRUE, type |-> "IndexError", message |-> IndexErrorMessage]
      ELSE [raised |-> FALSE,
            metadata |-> DataFrameOf([i \in 1..Len(gsms) |->
                           GseSampleData(gsms[i][1], gsms[i][2])]),
            expression |-> GseExpression(gse)]

ExtractErrorPrefix ==
  <<"E","r","r","o","r"," ","e","x","t","r","a","c","t","i","n","g"," ",
     "G","E","O"," ","d","a","t","a",":"," ">>

UnknownTypeMessage ==
  <<"U","n","k","n","o","w","n"," ","G","E","O"," ","o","b","j","e","c",
     "t"," ","t","y","p","e">>

\* The exception extract_geo_data raises for the one caught inside.
ExtractError(context, message) ==
  [raised |-> TRUE,
   error |-> [type |-> "Exception",
              message |-> ExtractErrorPrefix \o message,
              context |-> context],
   metadata |-> None,
   expression |-> None]

\* What extract_geo_data returns or raises when the extractor of a shape
\* returned or raised.
ExtractOutcome(result) ==
  IF result.raised THEN ExtractError(result.type, result.message)
  ELSE [raised |-> FALSE, error |-> None,
        metadata |-> result.metadata, expression |-> result.expression]

\* extract_geo_data with the test for gsms before the test for subsets.
ExtractGeoDataGsmsFirst(geo_obj) ==
  IF "gsms" \in DOMAIN geo_obj THEN ExtractOutcome(ExtractGseData(geo_obj))
  ELSE IF "subsets" \in DOMAIN geo_obj THEN ExtractOutcome(ExtractGdsData(geo_obj))
  ELSE ExtractError("Exception", UnknownTypeMessage)

\* extract_geo_data
ExtractGeoData(geo_obj) ==
  IF "subsets" \in DOMAIN geo_obj THEN ExtractOutcome(ExtractGdsData(geo_obj))
  ELSE IF "gsms" \in DOMAIN geo_obj THEN ExtractOutcome(ExtractGseData(geo_obj))
  ELSE ExtractError("Exception", UnknownTypeMessage)

---------------------------------------------------------------------------
\* The objects the cleaning calls work on.  heap is the sequence of the
\* DataFrame objects, the identity of an object is its position; a
\* statement that assigns to df.columns or to df[col] changes the object at
\* df, a method that returns a DataFrame adds an object.

\* The identity of no object: None.
NullRef == 0

\* df = metadata with no copy made: the same object.
FrameAlias(objects, ref) == [heap |-> objects, ref |-> ref]

\* df = metadata.copy()
FrameCopy(objects, ref) ==
  [heap |-> Append(objects, objects[ref]), ref |-> Len(objects) + 1]

\* A method of a DataFrame returns the new DataFrame df.
NewFrame(objects, df) ==
  [heap |-> Append(objects, df), ref |-> Len(objects) + 1]

\* clean_metadata, statement by statement, called with the object at ref.
CleanMetadataCall(objects, ref) ==
  LET copied == FrameCopy(objects, ref)
      df == copied.ref
      renamed == [copied.heap EXCEPT ![df].columns = StandardizeColumns(@)]
      replaced == [renamed EXCEPT ![df].rows =
                     [i \in 1..Len(@) |->
                        [j \in 1..Len(@[i]) |-> HandleMissingValue(@[i][j])]]]
      text == [replaced EXCEPT ![df].rows =
                 [i \in 1..Len(@) |->
                    [j \in 1..Len(@[i]) |-> CleanTextField(@[i][j])]]]
      dropped == NewFrame(text, [columns |-> text[df].columns,
                                 rows |-> DropNaAll(text[df].rows)])
  IN  NewFrame(dropped.heap,
               [columns |-> dropped.heap[dropped.ref].columns,
                rows |-> DropDuplicates(dropped.heap[dropped.ref].rows)])

\* clean_expression_data, statement by statement.
CleanExpressionCall(objects, ref) ==
  IF ref = NullRef THEN [heap |-> objects, ref |-> NullRef]
  ELSE LET copied == FrameCopy(objects, ref)
           df == copied.ref
           numeric == [copied.heap EXCEPT ![df].rows =
                         [i \in 1..Len(@) |->
                            [j \in 1..Len(@[i]) |-> ToNumeric(@[i][j])]]]
           rows == NewFrame(numeric, DropNaRows(numeric[df]))
       IN  NewFrame(rows.heap, DropNaColumns(rows.heap[rows.ref]))

\* normalize_metadata, statement by statement.
NormalizeMetadataCall(mappings, objects, ref) ==
  LET copied == FrameCopy(objects, ref)
      df == copied.ref
  IN  [heap |-> [copied.heap EXCEPT ![df] =
                   NormalizeColumns(mappings, @, FindOrganismColumns(@))],
       ref |-> df]

---------------------------------------------------------------------------
\* The state.

VARIABLES
  stage,              \* the position of the run: which call has returned
  custom_mappings,    \* the entries written to self.organism_mappings after
                      \* construction, as a function from key to name
  organism,           \* the argument of normalize_organism_name
  normalized,         \* its result
  renormalized,       \* the result of normalizing that result again
  content,            \* the decoded text of the uploaded file
  raised,             \* whether the parser raised instead of returning
  metadata,           \* the metadata DataFrame: parsed, or handed in
  expression,         \* the expression DataFrame returned by the parser
  cleaned,            \* clean_metadata(metadata)
  recleaned,          \* clean_metadata(cleaned)
  filename,           \* the name of the uploaded file
  geo_object,         \* the GEOparse object handed to extract_geo_data
  error,              \* the message of the exception the call raised
  report,             \* the result of generate_missing_data_report
  recommendations,    \* the result of generate_quality_recommendations
  heap,               \* the DataFrame objects, each at its identity
  refs                \* the identities of the table the caller handed in
                      \* and of the table returned

normVars == <<custom_mappings, organism, normalized, renormalized>>

tableVars == <<content, raised, metadata, expression, cleaned, recleaned>>

callVars == <<filename, geo_object, error, report, recommendations>>

heapVars == <<heap, refs>>

vars == <<stage, normVars, tableVars, callVars, heapVars>>

\* A result that no call has produced yet.
Unset == <<"<unset>">>

\* No file name or GEO object handed in, nothing reported yet.
NoCall ==
  /\ filename = Unset
  /\ geo_object = Unset
  /\ error = Unset
  /\ report = Unset
  /\ recommendations = Unset

\* No object followed by its identity.
NoHeap ==
  /\ heap = <<>>
  /\ refs = Unset

\* self.organism_mappings: the dict built by __init__ with the entries
\* written since.
OrganismMappings ==
  [k \in DOMAIN SeedMapping \cup DOMAIN custom_mappings |->
     IF k \in DOMAIN custom_mappings THEN custom_mappings[k] ELSE SeedMapping[k]]

---------------------------------------------------------------------------
\* Organism normalization of one name.

\* The pieces organism names are put together from.
OrganismTokens ==
  { <<"h","u","m","a","n">>, <<"m","o","u","s","e">>, <<"H",".">>,
    <<"S","a","p","i","e","n","s">>,
    <<"M","u","s","_","m","u","s","c","u","l","u","s">>,
    <<"x","e","n","o","p","u","s">>, <<"l","a","e","v","i","s">>,
    <<"s","p",".">>, <<LongS,"c","e">>, <<" ">>, <<"-">> }

OrganismInputs ==
  {NaN} \cup
  {Concat(ts) : ts \in UNION {[1..n -> OrganismTokens] : n \in 0..MaxTokens}}

InitNorm ==
  /\ stage = "input"
  /\ custom_mappings = <<>>
  /\ organism \in OrganismInputs
  /\ normalized = Unset
  /\ renormalized = Unset
  /\ NoCall
  /\ NoHeap
  /\ content = Unset
  /\ raised = FALSE
  /\ metadata = Unset
  /\ expression = Unset
  /\ cleaned = Unset
  /\ recleaned = Unset

\* normalized = normalizer.normalize_organism_name(organism)
Normalize ==
  /\ stage = "input"
  /\ normalized' = NormalizeOrganismName(OrganismMappings, organism)
  /\ stage' = "normalized"
  /\ UNCHANGED <<custom_mappings, organism, renormalized, tableVars, callVars,
                 heapVars>>

\* renormalized = normalizer.normalize_organism_name(normalized)
NormalizeAgain ==
  /\ stage = "normalized"
  /\ renormalized' = NormalizeOrganismName(OrganismMappings, normalized)
  /\ stage' = "renormalized"
  /\ UNCHANGED <<custom_mappings, organism, normalized, tableVars, callVars,
                 heapVars>>

NextNorm == Normalize \/ NormalizeAgain

SpecNorm == InitNorm /\ [][NextNorm]_vars

---------------------------------------------------------------------------
\* Organism normalization with aliases added at runtime.

XenopusLaevis == <<"X","e","n","o","p","u","s"," ","l","a","e","v","i","s">>

\* from_name arguments: "Mouse", "human-mouse", " Xenopus  Laevis ".
AliasFromNames ==
  { <<"M","o","u","s","e">>,
    <<"h","u","m","a","n","-","m","o","u","s","e">>,
    <<" ","X","e","n","o","p","u","s"," "," ","L","a","e","v","i","s"," ">> }

AliasToNames == {HomoSapiens, XenopusLaevis}

\* The names looked up: "mouse", "Mouse", "human-mouse", "mouse human",
\* "human mouse", "H.-Sapiens", "xenopus sp.", "Xenopus  Laevis",
\* "xenopus laevis", " Xenopus  Laevis ".
AliasInputs ==
  { <<"m","o","u","s","e">>, <<"M","o","u","s","e">>,
    <<"h","u","m","a","n","-","m","o","u","s","e">>,
    <<"m","o","u","s","e"," ","h","u","m","a","n">>,
    <<"h","u","m","a","n"," ","m","o","u","s","e">>,
    <<"H",".","-","S","a","p","i","e","n","s">>,
    <<"x","e","n","o","p","u","s"," ","s","p",".">>,
    <<"X","e","n","o","p","u","s"," "," ","L","a","e","v","i","s">>,
    <<"x","e","n","o","p","u","s"," ","l","a","e","v","i","s">>,
    <<" ","X","e","n","o","p","u","s"," "," ","L","a","e","v","i","s"," ">> }

InitAlias ==
  /\ stage = "input"
  /\ custom_mappings = <<>>
  /\ organism \in AliasInputs
  /\ normalized = Unset
  /\ renormalized = Unset
  /\ NoCall
  /\ NoHeap
  /\ content = Unset
  /\ raised = FALSE
  /\ metadata = Unset
  /\ expression = Unset
  /\ cleaned = Unset
  /\ recleaned = Unset

\* add_custom_mapping(from_name, to_name)
AddCustomMapping ==
  /\ stage = "input"
  /\ \E from_name \in AliasFromNames, to_name \in AliasToNames :
       LET key == Strip(Lower(from_name))
       IN  /\ \/ key \in DOMAIN OrganismMappings
              \/ Cardinality(DOMAIN OrganismMappings)
                   < Cardinality(DOMAIN SeedMapping) + MaxAliases
           /\ custom_mappings' =
                [k \in DOMAIN custom_mappings \cup {key} |->
                   IF k = key THEN to_name ELSE custom_mappings[k]]
  /\ UNCHANGED <<stage, organism, normalized, renormalized, tableVars, callVars,
                 heapVars>>

NextAlias == AddCustomMapping \/ Normalize \/ NormalizeAgain

SpecAlias == InitAlias /\ [][NextAlias]_vars

---------------------------------------------------------------------------
\* Organism normalization of a metadata table.

\* The column names: "organism", "Species", "Taxon ID", "Source_Name_Ch1", "source_name", "title", "ORGANISM_PART", "organ".
OrganismColumnNames ==
  { <<"o","r","g","a","n","i","s","m">>,
    <<"S","p","e","c","i","e","s">>,
    <<"T","a","x","o","n"," ","I","D">>,
    <<"S","o","u","r","c","e","_","N","a","m","e","_","C","h","1">>,
    <<"s","o","u","r","c","e","_","n","a","m","e">>,
    <<"t","i","t","l","e">>,
    <<"O","R","G","A","N","I","S","M","_","P","A","R","T">>,
    <<"o","r","g","a","n">> }

\* The cells: NaN, "human", "Xenopus laevis".
OrganismCells == << NaN, <<"h","u","m","a","n">>, XenopusLaevis >>

\* The rows of a table of `width' columns: the cells in turn, from the
\* k-th on.
OrganismRows(width) ==
  {[j \in 1..width |-> OrganismCells[((k + j) % Len(OrganismCells)) + 1]] :
     k \in 1..Len(OrganismCells)}

\* The tables: up to MaxTableColumns columns of different names, up to
\* MaxTableRows rows.
OrganismTables ==
  {[columns |-> h, rows |-> r] :
     h \in {c \in UNION {[1..n -> OrganismColumnNames] : n \in 1..MaxTableColumns} :
              \A i, j \in DOMAIN c : c[i] = c[j] => i = j},
     r \in UNION {[1..n -> OrganismRows(MaxTableColumns)] : n \in 0..MaxTableRows}}

InitTable ==
  /\ stage = "input"
  /\ \E t \in OrganismTables :
       metadata = [columns |-> t.columns,
                   rows |-> [i \in 1..Len(t.rows) |->
                               SubSeq(t.rows[i], 1, Len(t.columns))]]
  /\ content = Unset
  /\ raised = FALSE
  /\ expression = Unset
  /\ cleaned = Unset
  /\ recleaned = Unset
  /\ custom_mappings = <<>>
  /\ organism = Unset
  /\ normalized = Unset
  /\ renormalized = Unset
  /\ NoCall
  /\ NoHeap

\* normalized = normalizer.normalize_metadata(metadata)
NormalizeTable ==
  /\ stage = "input"
  /\ normalized' = NormalizeMetadata(OrganismMappings, metadata)
  /\ stage' = "normalized"
  /\ UNCHANGED <<custom_mappings, organism, renormalized, tableVars, callVars,
                 heapVars>>

NextTable == NormalizeTable

SpecTable == InitTable /\ [][NextTable]_vars

---------------------------------------------------------------------------
\* Cleaning a metadata table.

\* The headers of the tables cleaned: "Sample ID", "Cell-Type" and
\* "sample_id", "title".
MetadataHeaders ==
  { << <<"S","a","m","p","l","e"," ","I","D">>,
       <<"C","e","l","l","-","T","y","p","e">> >>,
    << <<"s","a","m","p","l","e","_","i","d">>, <<"t","i","t","l","e">> >> }

\* The cells of the first column: "S1", " S1", "-".
IdCells == { <<"S","1">>, <<" ","S","1">>, <<"-">> }

\* The cells of the second column: NaN, "NA", " NA ", "Na", " ", "a\t b",
\* "a ^A b", "^AN/A".
TextCells ==
  { NaN, <<"N","A">>, <<" ","N","A"," ">>, <<"N","a">>, <<" ">>,
    <<"a","\t"," ","b">>, <<"a"," ","^A"," ","b">>, <<"^A","N","/","A">> }

MetadataRows == {<<a, b>> : a \in IdCells, b \in TextCells}

MetadataInputs ==
  {[columns |-> h, rows |-> r] :
     h \in MetadataHeaders,
     r \in UNION {[1..n -> MetadataRows] : n \in 0..MaxRows}}

InitClean ==
  /\ stage = "input"
  /\ metadata \in MetadataInputs
  /\ content = Unset
  /\ raised = FALSE
  /\ expression = Unset
  /\ cleaned = Unset
  /\ recleaned = Unset
  /\ custom_mappings = <<>>
  /\ organism = Unset
  /\ normalized = Unset
  /\ renormalized = Unset
  /\ NoCall
  /\ NoHeap

\* cleaned = processor.clean_metadata(metadata)
CleanInput ==
  /\ stage = "input"
  /\ cleaned' = CleanMetadata(metadata)
  /\ stage' = "cleaned"
  /\ UNCHANGED <<content, raised, metadata, expression, recleaned, normVars, callVars,
                 heapVars>>

\* recleaned = processor.clean_metadata(cleaned)
CleanAgain ==
  /\ stage = "cleaned"
  /\ recleaned' = CleanMetadata(cleaned)
  /\ stage' = "recleaned"
  /\ UNCHANGED <<content, raised, metadata, expression, cleaned, normVars, callVars,
                 heapVars>>

NextClean == CleanInput \/ CleanAgain

SpecClean == InitClean /\ [][NextClean]_vars

---------------------------------------------------------------------------
\* Parsing a .soft file and cleaning its metadata.

\* The lines .soft files are put together from.
SoftLines ==
  { <<"^","S","A","M","P","L","E"," ","="," ","G","S","M","1">>,
    <<"^","S","A","M","P","L","E"," ","="," ","G","S","M","2">>,
    <<"!","S","a","m","p","l","e","_","t","i","t","l","e"," ","="," ","A">>,
    <<"!","S","a","m","p","l","e","_","t","i","t","l","e"," ","="," ","B">>,
    <<" ","!","S","a","m","p","l","e","_","S","r","c","=","x","=","y"," ">>,
    <<"!","s","a","m","p","l","e","_","t","a","b","l","e","_","b","e","g","i","n">>,
    <<"^","S","A","M","P","L","E">> }

SoftInputs ==
  {Join(<<"\n">>, ls) : ls \in UNION {[1..n -> SoftLines] : n \in 0..MaxLines}}

InitSoft ==
  /\ stage = "input"
  /\ content \in SoftInputs
  /\ raised = FALSE
  /\ metadata = Unset
  /\ expression = Unset
  /\ cleaned = Unset
  /\ recleaned = Unset
  /\ custom_mappings = <<>>
  /\ organism = Unset
  /\ normalized = Unset
  /\ renormalized = Unset
  /\ NoCall
  /\ NoHeap

\* metadata, expression = processor._parse_soft_file(content)
ParseSoft ==
  /\ stage = "input"
  /\ LET result == ParseSoftFile(content)
     IN  /\ raised' = result.raised
         /\ metadata' = result.metadata
         /\ expression' = result.expression
  /\ stage' = "parsed"
  /\ UNCHANGED <<content, cleaned, recleaned, normVars, callVars, heapVars>>

\* cleaned = processor.clean_metadata(metadata), the parser having returned
CleanParsed ==
  /\ stage = "parsed"
  /\ ~raised
  /\ cleaned' = CleanMetadata(metadata)
  /\ stage' = "cleaned"
  /\ UNCHANGED <<content, raised, metadata, expression, recleaned, normVars, callVars,
                 heapVars>>

NextSoft == ParseSoft \/ CleanParsed

SpecSoft == InitSoft /\ [][NextSoft]_vars

---------------------------------------------------------------------------
\* Parsing a .txt file.

\* The column names of the headers: "ProbeID", "S1", "S2", "Sample_ID",
\* "GSM1", "GSM2", "ID_REF".
TxtColumnNames ==
  { <<"P","r","o","b","e","I","D">>, <<"S","1">>, <<"S","2">>,
    <<"S","a","m","p","l","e","_","I","D">>, <<"G","S","M","1">>,
    <<"G","S","M","2">>, <<"I","D","_","R","E","F">> }

\* The data lines below a header of `width' columns: none; one full line;
\* or two lines, the second with an empty last field.
TxtBodies(width) ==
  { <<>>,
    << [j \in 1..width |-> IF j = 1 THEN <<"p","1">> ELSE <<"1",".","5">>] >>,
    << [j \in 1..width |-> IF j = 1 THEN <<"p","1">> ELSE <<"1",".","5">>],
       [j \in 1..width |-> IF j = 1 THEN <<"p","2">>
                            ELSE IF j = width THEN <<>> ELSE <<"x">>] >> }

\* The text of a tab-delimited file with the given header and data lines.
TxtText(header, body) ==
  Join(<<"\n">>, [i \in 1..(Len(body) + 1) |->
                    Join(<<"\t">>, IF i = 1 THEN header ELSE body[i - 1])])

TxtInputs ==
  {<<>>} \cup
  UNION {{TxtText(header, body) : body \in TxtBodies(Len(header))} :
           header \in UNION {[1..n -> TxtColumnNames] : n \in 1..MaxColumns}}

InitTxt ==
  /\ stage = "input"
  /\ content \in TxtInputs
  /\ raised = FALSE
  /\ metadata = Unset
  /\ expression = Unset
  /\ cleaned = Unset
  /\ recleaned = Unset
  /\ custom_mappings = <<>>
  /\ organism = Unset
  /\ normalized = Unset
  /\ renormalized = Unset
  /\ NoCall
  /\ NoHeap

\* metadata, expression = processor._parse_txt_file(content)
ParseTxt ==
  /\ stage = "input"
  /\ LET result == ParseTxtFile(content)
     IN  /\ raised' = result.raised
         /\ metadata' = result.metadata
         /\ expression' = result.expression
  /\ stage' = "parsed"
  /\ UNCHANGED <<content, cleaned, recleaned, normVars, callVars, heapVars>>

NextTxt == ParseTxt \/ CleanParsed

SpecTxt == InitTxt /\ [][NextTxt]_vars

---------------------------------------------------------------------------
\* Reporting the missing data of the tables and recommending.

\* The column names of the metadata tables, with and without a column of
\* organism names: "sample_id", "title", "Organism_ch1" or "organ",
\* "tissue", "age", "sex", "batch", "source".
ReportColumnNames ==
  { << <<"s","a","m","p","l","e","_","i","d">>, <<"t","i","t","l","e">>, org, <<"t","i","s","s","u","e">>, <<"a","g","e">>, <<"s","e","x">>, <<"b","a","t","c","h">>, <<"s","o","u","r","c","e">> >> :
      org \in { <<"O","r","g","a","n","i","s","m","_","c","h","1">>,
                <<"o","r","g","a","n">> } }

\* A row of `width' cells with those at the positions in `missing' NaN.
ReportRow(width, missing, present) ==
  [j \in 1..width |-> IF j \in missing THEN NaN ELSE present]

\* The sets of missing positions of a row: none, one position, or all the
\* positions from one on.
MissingPatterns(width) ==
  {{}} \cup {{k} : k \in 1..width} \cup {k..width : k \in 1..width}

\* The metadata tables: up to MaxReportColumns columns and MaxReportRows
\* rows.
ReportMetadata ==
  UNION {{[columns |-> SubSeq(names, 1, n), rows |-> r] :
            r \in UNION {[1..m -> {ReportRow(n, missing, <<"x">>) :
                                     missing \in MissingPatterns(n)}] :
                           m \in 0..MaxReportRows}} :
           names \in ReportColumnNames, n \in 0..MaxReportColumns}

\* The expression tables: up to MaxExpressionColumns columns GSM1, GSM2,
\* ... and at most one row, indexed by ID_REF.
ReportExpression ==
  UNION {{[index_name |-> <<"I","D","_","R","E","F">>,
           index |-> [i \in 1..Len(r) |-> <<"p","1">>],
           columns |-> [j \in 1..n |-> <<"G","S","M">> \o Decimal(j)],
           rows |-> r] :
            r \in {<<>>} \cup {<<ReportRow(n, missing, <<"1",".","5">>)>> :
                                 missing \in MissingPatterns(n)}} :
           n \in 0..MaxExpressionColumns}

\* The metadata tables reported with an expression table: none of 0 and
\* of 3 columns, one row of 3 columns with a cell missing.
ReportMetadataSmall ==
  {t \in ReportMetadata :
     /\ Len(t.columns) \in {0, 3}
     /\ Len(t.rows) <= 1
     /\ Len(t.columns) = 3 =>
          \A i \in 1..Len(t.rows) : t.rows[i][3] # NaN /\ t.rows[i][1] # NaN}

InitReport ==
  /\ stage = "input"
  /\ \/ metadata \in ReportMetadata /\ expression = None
     \/ metadata \in ReportMetadataSmall /\ expression \in ReportExpression
  /\ content = Unset
  /\ raised = FALSE
  /\ cleaned = Unset
  /\ recleaned = Unset
  /\ custom_mappings = <<>>
  /\ organism = Unset
  /\ normalized = Unset
  /\ renormalized = Unset
  /\ NoCall
  /\ NoHeap

\* report = processor.generate_missing_data_report(metadata, expression)
GenerateReport ==
  /\ stage = "input"
  /\ report' = GenerateMissingDataReport(metadata, expression)
  /\ stage' = "reported"
  /\ UNCHANGED <<normVars, tableVars, filename, geo_object, error, recommendations,
                 heapVars>>

\* recommendations = processor.generate_quality_recommendations(report)
Recommend ==
  /\ stage = "reported"
  /\ recommendations' = GenerateQualityRecommendations(report)
  /\ stage' = "recommended"
  /\ UNCHANGED <<normVars, tableVars, filename, geo_object, error, report,
                 heapVars>>

NextReport == GenerateReport \/ Recommend

SpecReport == InitReport /\ [][NextReport]_vars

---------------------------------------------------------------------------
\* Cleaning an expression table.

\* The numeric tokens: "1.5", "-2", "0".
NumericTokens == << <<"1",".","5">>, <<"-","2">>, <<"0">> >>

\* The tokens that are no number: "abc", "1.5x", "-", "".
TextTokens == << <<"a","b","c">>, <<"1",".","5","x">>, <<"-">>, <<>> >>

\* The cell at row i and column j of a table, of the given kind.
ExpressionCell(kind, i, j) ==
  IF kind = "number" THEN NumericTokens[((i + j) % Len(NumericTokens)) + 1]
  ELSE IF kind = "text" THEN TextTokens[((i + 2 * j) % Len(TextTokens)) + 1]
  ELSE NaN

\* The table of m rows p1, p2, ... and n columns GSM1, GSM2, ... indexed
\* by ID_REF, with cells of the given kinds.
ExpressionTable(m, n, kinds) ==
  [index_name |-> <<"I","D","_","R","E","F">>,
   index |-> [i \in 1..m |-> <<"p">> \o Decimal(i)],
   columns |-> [j \in 1..n |-> <<"G","S","M">> \o Decimal(j)],
   rows |-> [i \in 1..m |-> [j \in 1..n |-> ExpressionCell(kinds[i][j], i, j)]]]

\* No table, or a table of up to MaxCleanRows rows and MaxCleanColumns
\* columns, each cell a number, a text or NaN.
InitExpression ==
  /\ stage = "input"
  /\ \/ expression = None
     \/ \E m \in 0..MaxCleanRows, n \in 0..MaxCleanColumns :
          \E kinds \in [1..m -> [1..n -> {"number", "text", "missing"}]] :
            expression = ExpressionTable(m, n, kinds)
  /\ content = Unset
  /\ raised = FALSE
  /\ metadata = Unset
  /\ cleaned = Unset
  /\ recleaned = Unset
  /\ custom_mappings = <<>>
  /\ organism = Unset
  /\ normalized = Unset
  /\ renormalized = Unset
  /\ NoCall
  /\ NoHeap

\* cleaned = processor.clean_expression_data(expression)
CleanExpression ==
  /\ stage = "input"
  /\ cleaned' = CleanExpressionData(expression)
  /\ stage' = "cleaned"
  /\ UNCHANGED <<content, raised, metadata, expression, recleaned, normVars, callVars,
                 heapVars>>

NextExpression == CleanExpression

SpecExpression == InitExpression /\ [][NextExpression]_vars

---------------------------------------------------------------------------
\* Parsing an uploaded file.

\* The file names: "a.soft", "a.txt", ".soft", ".txt", "a.csv", "a.SOFT", "a.txt.gz", "asoft", "", "a.soft.txt",
\* "a.TXT", "a.xlsx".
FileNames ==
  { <<"a",".","s","o","f","t">>,
    <<"a",".","t","x","t">>,
    <<".","s","o","f","t">>,
    <<".","t","x","t">>,
    <<"a",".","c","s","v">>,
    <<"a",".","S","O","F","T">>,
    <<"a",".","t","x","t",".","g","z">>,
    <<"a","s","o","f","t">>,
    <<>>,
    <<"a",".","s","o","f","t",".","t","x","t">>,
    <<"a",".","T","X","T">>,
    <<"a",".","x","l","s","x">> }

\* The tab-delimited files: none of a line, the header ProbeID, S1 with a
\* line of data, the header ID_REF, GSM1 with a line of data.
TxtFiles ==
  { <<>>,
    TxtText(<< <<"P","r","o","b","e","I","D">>, <<"S","1">> >>, << << <<"p","1">>, <<"1",".","5">> >> >>),
    TxtText(<< <<"I","D","_","R","E","F">>, <<"G","S","M","1">> >>, << << <<"p","1">>, <<"1",".","5">> >> >>) }

\* The bytes uploaded: not UTF-8, a tab-delimited file, or up to two of
\* the lines of .soft files.
FileContents ==
  {InvalidUtf8} \cup TxtFiles
    \cup {Join(<<"\n">>, ls) : ls \in [1..1 -> SoftLines] \cup [1..2 -> SoftLines]}

InitParse ==
  /\ stage = "input"
  /\ content \in FileContents
  /\ filename \in FileNames
  /\ raised = FALSE
  /\ metadata = Unset
  /\ expression = Unset
  /\ cleaned = Unset
  /\ recleaned = Unset
  /\ custom_mappings = <<>>
  /\ organism = Unset
  /\ normalized = Unset
  /\ renormalized = Unset
  /\ geo_object = Unset
  /\ error = Unset
  /\ report = Unset
  /\ recommendations = Unset
  /\ NoHeap

\* metadata, expression = processor.parse_geo_file(content, filename)
ParseGeo ==
  /\ stage = "input"
  /\ LET result == ParseGeoFile(content, filename)
     IN  /\ raised' = result.raised
         /\ error' = result.error
         /\ metadata' = result.metadata
         /\ expression' = result.expression
  /\ stage' = "parsed"
  /\ UNCHANGED <<content, cleaned, recleaned, normVars, filename, geo_object,
                 report, recommendations, heapVars>>

NextParse == ParseGeo

SpecParse == InitParse /\ [][NextParse]_vars

---------------------------------------------------------------------------
\* Properties of clean_metadata.

\* C1: cleaning a cleaned table gives the same table, cell for cell, row
\* for row and column for column.
C1_CleanIdempotent ==
  stage = "recleaned" => recleaned = cleaned

RECURSIVE SubsequenceAt(_, _, _)
\* The characters of s at the positions in keep, from position i on.
SubsequenceAt(s, keep, i) ==
  IF i > Len(s) THEN <<>>
  ELSE (IF i \in keep THEN <<s[i]>> ELSE <<>>) \o SubsequenceAt(s, keep, i + 1)

\* Every run of whitespace collapsed to one space.
RunsCollapsed(s) ==
  SubsequenceAt([i \in 1..Len(s) |-> IF IsSpace(s[i]) THEN " " ELSE s[i]],
                {i \in 1..Len(s) : ~(IsSpace(s[i]) /\ i > 1 /\ IsSpace(s[i - 1]))},
                1)

\* The whitespace at both ends removed.
EndsTrimmed(s) ==
  LET solid == {i \in 1..Len(s) : ~IsSpace(s[i])}
  IN  IF solid = {} THEN <<>>
      ELSE SubSeq(s, CHOOSE i \in solid : \A k \in solid : i <= k,
                     CHOOSE i \in solid : \A k \in solid : i >= k)

\* The C0/C1 control characters removed.
ControlsRemoved(s) ==
  SubsequenceAt(s, {i \in 1..Len(s) : ~IsControl(s[i])}, 1)

\* What C2 says a cell becomes.
ExpectedCell(cell) ==
  IF cell = NaN \/ cell \in missing_indicators THEN NaN
  ELSE ControlsRemoved(EndsTrimmed(RunsCollapsed(cell)))

ExpectedRow(row) == [j \in 1..Len(row) |-> ExpectedCell(row[j])]

\* C2: a text cell that is exactly (case-sensitively) a missing-value
\* indicator becomes NaN; a non-empty text cell that is no indicator stays
\* non-missing and is the input with whitespace runs collapsed to one
\* space, ends trimmed and control characters removed.  The cleaned rows
\* are exactly those images of the input rows that are not all missing.
C2_SentinelsAndText ==
  stage = "cleaned" =>
    /\ \A i \in 1..Len(metadata.rows) :
         /\ \A j \in 1..Len(metadata.rows[i]) :
              LET cell == metadata.rows[i][j]
              IN  (ExpectedCell(cell) = NaN)
                    <=> (cell = NaN \/ cell \in missing_indicators)
         /\ ~AllMissing(ExpectedRow(metadata.rows[i]))
              => \E k \in 1..Len(cleaned.rows) :
                   cleaned.rows[k] = ExpectedRow(metadata.rows[i])
    /\ \A k \in 1..Len(cleaned.rows) :
         \E i \in 1..Len(metadata.rows) :
           cleaned.rows[k] = ExpectedRow(metadata.rows[i])

\* A table with the indicator "NA" and the non-indicators " NA " and "Na"
\* has been cleaned: the first is missing, the others are "NA" and "Na".
C2_Witness ==
  /\ stage = "cleaned"
  /\ Len(metadata.rows) = 2 /\ Len(cleaned.rows) = 2
  /\ metadata.rows[1][2] = <<" ","N","A"," ">>
  /\ cleaned.rows[1][2] = <<"N","A">>
  /\ metadata.rows[2] = << <<" ","S","1">>, <<"N","A">> >>
  /\ cleaned.rows[2] = << <<"S","1">>, NaN >>
  /\ \E h \in MetadataHeaders, r \in MetadataRows :
       r[2] = <<"N","a">> /\ [columns |-> h, rows |-> <<r>>] \in MetadataInputs

\* The input rows that survive cleaning: those whose image is not all
\* missing and is the image of no earlier row.
SurvivingRows ==
  SelectSeq([i \in 1..Len(metadata.rows) |-> i],
            LAMBDA i :
              /\ ~AllMissing(ExpectedRow(metadata.rows[i]))
              /\ \A h \in 1..(i - 1) :
                   ExpectedRow(metadata.rows[h]) # ExpectedRow(metadata.rows[i]))

\* C17: the cleaned table has no row that is all missing and no two equal
\* rows; its rows are the images of the input rows, each at its first
\* occurrence, in the input order (rows equal only after the replacement
\* of indicators and the normalization of text count as equal); its
\* columns are the input columns in the input order.
C17_NoEmptyNoDuplicateRows ==
  stage = "cleaned" =>
    /\ \A k \in 1..Len(cleaned.rows) : ~AllMissing(cleaned.rows[k])
    /\ \A k, l \in 1..Len(cleaned.rows) :
         cleaned.rows[k] = cleaned.rows[l] => k = l
    /\ cleaned.rows = [k \in 1..Len(SurvivingRows) |->
                         ExpectedRow(metadata.rows[SurvivingRows[k]])]
    /\ Len(cleaned.columns) = Len(metadata.columns)
    /\ \A j \in 1..Len(metadata.columns) :
         /\ Len(cleaned.columns[j]) = Len(metadata.columns[j])
         /\ \A k \in 1..Len(metadata.columns[j]) :
              cleaned.columns[j][k] =
                IF metadata.columns[j][k] \in {" ", "-"} THEN "_"
                ELSE LowerChar(metadata.columns[j][k])

\* The rows ("S1", "NA") and (" S1", NaN), equal only once cleaned, have
\* been reduced to the one row ("S1", NaN).
C17_Witness ==
  /\ stage = "cleaned"
  /\ metadata.rows = << << <<"S","1">>, <<"N","A">> >>,
                        << <<" ","S","1">>, NaN >> >>
  /\ cleaned.rows = << << <<"S","1">>, NaN >> >>

\* The position of a column in a DataFrame, 0 when it has no such column.
ColumnIndex(df, name) ==
  IF \E j \in 1..Len(df.columns) : df.columns[j] = name
  THEN CHOOSE j \in 1..Len(df.columns) : df.columns[j] = name
  ELSE 0

\* C3: in the cleaned table of a parsed file (with at least one record)
\* the column sample_id is present and no two records have the same
\* sample_id.
C3_SampleIdUnique ==
  stage = "cleaned" /\ content # Unset /\ cleaned.rows # <<>> =>
    LET c == ColumnIndex(cleaned, SampleIdKey)
    IN  /\ c # 0
        /\ \A i, k \in 1..Len(cleaned.rows) :
             cleaned.rows[i][c] = cleaned.rows[k][c] => i = k

---------------------------------------------------------------------------
\* Properties of the .soft parser.

\* The file of section 8: ^SAMPLE = GSM1, !Sample_title = A,
\* ^SAMPLE = GSM2, !Sample_title = B.
TwoSampleFile ==
  Join(<<"\n">>,
       << <<"^","S","A","M","P","L","E"," ","="," ","G","S","M","1">>,
          <<"!","S","a","m","p","l","e","_","t","i","t","l","e"," ","="," ","A">>,
          <<"^","S","A","M","P","L","E"," ","="," ","G","S","M","2">>,
          <<"!","S","a","m","p","l","e","_","t","i","t","l","e"," ","="," ","B">> >>)

\* C4: the two-sample file yields exactly 2 records with sample_id GSM1,
\* GSM2 and the field `title' (the key of the line, prefix removed,
\* lowercased, nothing added) equal to A, B, and expression None.
C4_TwoSampleExample ==
  stage = "parsed" /\ content = TwoSampleFile =>
    /\ ~raised
    /\ metadata =
         [columns |-> <<SampleIdKey, <<"t","i","t","l","e">> >>,
          rows |-> << << <<"G","S","M","1">>, <<"A">> >>,
                      << <<"G","S","M","2">>, <<"B">> >> >>]
    /\ expression = None

RECURSIVE LinesBeforeMarker(_)
\* The lines before the first line that starts with the table-begin marker.
LinesBeforeMarker(lines) ==
  IF lines = <<>> \/ StartsWith(Strip(Head(lines)), SampleTableBegin) THEN <<>>
  ELSE <<Head(lines)>> \o LinesBeforeMarker(Tail(lines))

\* The number of lines that start a sample record.
SampleLineCount(lines) ==
  Cardinality({i \in 1..Len(lines) : StartsWith(Strip(lines[i]), SampleMarker)})

\* C5: the first line starting with the sample-table-begin marker ends the
\* scan: the result is that of the file cut before that line (no later
\* line changes it), the record in progress is flushed (one record per
\* sample line before the marker) and the expression result is None.
C5_ScanEndsAtMarker ==
  stage = "parsed" =>
    LET before == LinesBeforeMarker(SplitOn(content, "\n"))
        cut == ParseSoftFile(Join(<<"\n">>, before))
    IN  /\ raised = cut.raised
        /\ metadata = cut.metadata
        /\ expression = None
        /\ ~raised => Len(metadata.rows) = SampleLineCount(before)

\* A file with a sample line after the marker has been parsed: the one
\* record is the one in progress when the marker was met.
C5_Witness ==
  /\ stage = "parsed"
  /\ ~raised
  /\ LET lines == SplitOn(content, "\n")
     IN  /\ Len(lines) = 4
         /\ StartsWith(lines[1], SampleMarker)
         /\ StartsWith(lines[2], SampleFieldPrefix)
         /\ lines[3] = SampleTableBegin
         /\ StartsWith(lines[4], SampleMarker)
  /\ Len(metadata.rows) = 1
  /\ Len(metadata.columns) = 2

\* The line is a sample-field line with a key and a value.
IsFieldLine(raw) ==
  /\ StartsWith(Strip(raw), SampleFieldPrefix)
  /\ \E k \in 1..Len(Strip(raw)) : Strip(raw)[k] = "="

\* The field name of a sample-field line: the text before the first "="
\* without the prefix, lowercased.
KeyOfLine(raw) == FieldKey(SplitFirst(Strip(raw), "=")[1])

\* Its value: the text after the first "=", trimmed.
ValueOfLine(raw) == Strip(SplitFirst(Strip(raw), "=")[2])

\* The positions of the lines that start a sample record, in order.
SampleStarts(lines) ==
  SelectSeq([i \in 1..Len(lines) |-> i],
            LAMBDA i : StartsWith(Strip(lines[i]), SampleMarker))

\* The positions of the lines of the section of record r: after its
\* sample line, up to the next sample line or the end.
SectionOf(lines, r) ==
  LET starts == SampleStarts(lines)
  IN  (starts[r] + 1) ..
        (IF r < Len(starts) THEN starts[r + 1] - 1 ELSE Len(lines))

\* C23: in the table parsed from a .soft file each record has, for each
\* field name, the value of the last line of that name in its section (of
\* the lines before the table marker), and the sample id or a missing
\* value where the section has no such line; every column other than
\* sample_id is the name of a line inside a section, so a sample-field
\* line before the first sample line gives nothing.
C23_LastValuePerField ==
  (stage = "parsed" /\ ~raised) =>
    LET lines == LinesBeforeMarker(SplitOn(content, "\n"))
        starts == SampleStarts(lines)
        named(r, c) == {i \in SectionOf(lines, r) :
                          IsFieldLine(lines[i]) /\ KeyOfLine(lines[i]) = c}
    IN  /\ Len(metadata.rows) = Len(starts)
        /\ \A r \in 1..Len(starts) : \A j \in 1..Len(metadata.columns) :
             LET c == metadata.columns[j]
             IN  metadata.rows[r][j] =
                   IF named(r, c) # {}
                   THEN ValueOfLine(lines[CHOOSE i \in named(r, c) :
                                             \A k \in named(r, c) : k <= i])
                   ELSE IF c = SampleIdKey
                   THEN Strip(SplitOn(Strip(lines[starts[r]]), "=")[2])
                   ELSE NaN
        /\ \A j \in 1..Len(metadata.columns) :
             \/ metadata.columns[j] = SampleIdKey
             \/ \E r \in 1..Len(starts) : \E i \in SectionOf(lines, r) :
                  IsFieldLine(lines[i]) /\ KeyOfLine(lines[i]) = metadata.columns[j]

\* A title line, the sample line of GSM1 and two title lines with the
\* values A and B have been parsed: the one record has the title B.
C23_Witness ==
  /\ stage = "parsed"
  /\ ~raised
  /\ LET lines == SplitOn(content, "\n")
     IN  /\ Len(lines) = 4
         /\ IsFieldLine(lines[1])
         /\ StartsWith(lines[2], SampleMarker)
         /\ IsFieldLine(lines[3])
         /\ IsFieldLine(lines[4])
         /\ KeyOfLine(lines[3]) = KeyOfLine(lines[4])
         /\ ValueOfLine(lines[3]) = <<"A">>
         /\ ValueOfLine(lines[4]) = <<"B">>
  /\ Len(metadata.columns) = 2
  /\ metadata.rows = << << <<"G","S","M","1">>, <<"B">> >> >>

\* The header line of the file, as written.
TxtHeader == SplitOn(Head(SplitOn(content, "\n")), "\t")

\* Some name of the header equals sample_id in any letter case, or
\* contains gsm in any letter case.
HasMarkerColumn ==
  \E j \in 1..Len(TxtHeader) :
    \/ Len(TxtHeader[j]) = Len(SampleIdKey)
       /\ \A k \in 1..Len(SampleIdKey) : LowerChar(TxtHeader[j][k]) = SampleIdKey[k]
    \/ \E k \in 1..(Len(TxtHeader[j]) - 2) :
         /\ LowerChar(TxtHeader[j][k]) = "g"
         /\ LowerChar(TxtHeader[j][k + 1]) = "s"
         /\ LowerChar(TxtHeader[j][k + 2]) = "m"

\* C6: a tab-delimited table whose header has no marker column parses to
\* an expression table indexed by the first column with exactly the
\* remaining columns in header order, and to a synthesized metadata table
\* with one record per remaining column, in the same order, sample_id the
\* column name and source "uploaded_file".
C6_ExpressionMatrix ==
  (stage = "parsed" /\ content # <<>> /\ ~HasMarkerColumn) =>
    LET columns == ReadCsv(content).df.columns
        rest == Tail(columns)
    IN  /\ ~raised
        /\ expression # None
        /\ expression.index_name = TxtHeader[1]
        /\ expression.columns = rest
        /\ \A i \in 1..Len(expression.rows) : Len(expression.rows[i]) = Len(rest)
        /\ Len(metadata.rows) = Len(rest)
        /\ rest # <<>> =>
             /\ metadata.columns = <<SampleIdKey, SourceKey>>
             /\ \A j \in 1..Len(rest) : metadata.rows[j] = <<rest[j], UploadedFile>>

\* The header ProbeID, S1, S2 with two data lines has been parsed:
\* expression columns S1, S2 indexed by ProbeID, two records S1, S2.
C6_Witness ==
  /\ stage = "parsed"
  /\ TxtHeader = << <<"P","r","o","b","e","I","D">>, <<"S","1">>, <<"S","2">> >>
  /\ expression # None
  /\ expression.index_name = <<"P","r","o","b","e","I","D">>
  /\ expression.columns = << <<"S","1">>, <<"S","2">> >>
  /\ Len(expression.rows) = 2
  /\ metadata.rows = << <<<<"S","1">>, UploadedFile>>, <<<<"S","2">>, UploadedFile>> >>

\* C7: the whole table is returned as the metadata, unchanged, with
\* expression None, exactly when some column name equals sample_id in any
\* letter case or contains gsm in any letter case.
C7_MetadataIffMarker ==
  (stage = "parsed" /\ content # <<>>) =>
    /\ ~raised
    /\ (metadata = ReadCsv(content).df /\ expression = None) <=> HasMarkerColumn

\* The header ID_REF, GSM1, GSM2 of a numeric expression matrix has been
\* parsed: the table is the metadata and there is no expression table.
C7_Witness ==
  /\ stage = "parsed"
  /\ TxtHeader = << <<"I","D","_","R","E","F">>, <<"G","S","M","1">>,
                    <<"G","S","M","2">> >>
  /\ Len(SplitOn(content, "\n")) = 3
  /\ expression = None
  /\ metadata.columns = TxtHeader
  /\ metadata.rows[1] = << <<"p","1">>, <<"1",".","5">>, <<"1",".","5">> >>
  /\ Len(metadata.rows) = 2

---------------------------------------------------------------------------
\* Properties of normalize_metadata.

\* The column name contains the keyword, letter case apart.
NameContains(name, keyword) ==
  \E i \in 0..(Len(name) - Len(keyword)) :
    \A k \in 1..Len(keyword) : LowerChar(name[i + k]) = keyword[k]

\* The column is one of those the table normalization is to rewrite.
IsOrganismColumn(name) ==
  \E k \in 1..Len(organism_keywords) : NameContains(name, organism_keywords[k])

\* C11: normalize_metadata applies normalize_organism_name to every cell
\* of exactly the columns whose name contains a keyword in any letter
\* case; every other cell is the input cell, and the columns, the number
\* of rows and their order are those of the input.
C11_OrganismColumnsOnly ==
  stage = "normalized" =>
    /\ normalized.columns = metadata.columns
    /\ Len(normalized.rows) = Len(metadata.rows)
    /\ \A i \in 1..Len(metadata.rows) :
         /\ Len(normalized.rows[i]) = Len(metadata.columns)
         /\ \A j \in 1..Len(metadata.columns) :
              normalized.rows[i][j] =
                IF IsOrganismColumn(metadata.columns[j])
                THEN NormalizeOrganismName(OrganismMappings, metadata.rows[i][j])
                ELSE metadata.rows[i][j]

\* A table with the columns Species and title and a row ("human",
\* "Xenopus laevis") has been normalized: the row is now ("Homo sapiens",
\* "Xenopus laevis").
C11_Witness ==
  /\ stage = "normalized"
  /\ metadata.columns = << <<"S","p","e","c","i","e","s">>, <<"t","i","t","l","e">> >>
  /\ \E i \in 1..Len(metadata.rows) :
       /\ metadata.rows[i] = << <<"h","u","m","a","n">>, XenopusLaevis >>
       /\ normalized.rows[i] = << HomoSapiens, XenopusLaevis >>

---------------------------------------------------------------------------
\* Properties of the missing-data report and the recommendations.

\* The number of missing cells of a table.
MissingCells(df) ==
  Cardinality({p \in (1..Len(df.rows)) \X (1..Len(df.columns)) :
                 df.rows[p[1]][p[2]] = NaN})

\* The number of cells of a table.
TotalCells(df) == Len(df.rows) * Len(df.columns)

\* C12: with no expression table, the report of a metadata table of R
\* rows, C columns and M missing cells has total_cells R*C, missing_cells
\* M, missing_percentage M/(R*C)*100 and completion_rate
\* (R*C-M)/(R*C)*100; when R*C = 0 it has missing_percentage 0 and
\* completion_rate 0.
C12_MetadataTotals ==
  (stage = "reported" /\ expression = None) =>
    LET cells == TotalCells(metadata)
        missing == MissingCells(metadata)
    IN  /\ "missing_percentage" \in DOMAIN report.metadata_missing
        /\ IF cells > 0
           THEN /\ report.metadata_missing.total_cells = cells
                /\ report.metadata_missing.missing_cells = missing
                /\ report.metadata_missing.missing_percentage.num * cells
                     = missing * 100
                         * report.metadata_missing.missing_percentage.den
                /\ report.completion_rate.num * cells
                     = (cells - missing) * 100 * report.completion_rate.den
           ELSE /\ report.metadata_missing.missing_percentage = Rational(0, 1)
                /\ report.completion_rate = Rational(0, 1)

\* C13: the report of an expression table of more than 20 columns (and at
\* least one row) breaks down the first 20 columns only, in table order,
\* while its total_cells and missing_cells, the total_missing of the
\* report and the completion rate count every cell of both tables.
C13_BreakdownTruncatedTotalsNot ==
  (stage = "reported" /\ expression # None) =>
    ((Len(expression.columns) > 20 /\ Len(expression.rows) > 0) =>
      LET cells == TotalCells(metadata) + TotalCells(expression)
          missing == MissingCells(metadata) + MissingCells(expression)
          by_column == report.expression_missing.by_column
      IN  /\ Len(by_column) = 20
          /\ \A j \in 1..20 :
               /\ by_column[j][1] = expression.columns[j]
               /\ by_column[j][2] =
                    Cardinality({i \in 1..Len(expression.rows) :
                                   expression.rows[i][j] = NaN})
          /\ report.expression_missing.total_cells = TotalCells(expression)
          /\ report.expression_missing.missing_cells = MissingCells(expression)
          /\ report.total_missing = missing
          /\ report.completion_rate.num * cells
               = (cells - missing) * 100 * report.completion_rate.den)

\* An expression table of 22 columns with the cells of columns 21 and 22
\* missing has been reported with a metadata table with a missing cell:
\* 20 columns in the breakdown, none of them with a missing cell, and 3
\* missing cells in total.
C13_Witness ==
  /\ stage = "reported"
  /\ expression # None
  /\ Len(expression.columns) = 22
  /\ MissingCells(expression) = 2
  /\ expression.rows[1][22] = NaN
  /\ MissingCells(metadata) = 1
  /\ Len(report.expression_missing.by_column) = 20
  /\ \A j \in 1..20 : report.expression_missing.by_column[j][2] = 0
  /\ report.expression_missing.missing_cells = 2
  /\ report.total_missing = 3
  /\ report.completion_rate = Rational(22 * 100, 25)

\* C14: the recommendations are never empty and start with the tier
\* message of the completion rate r: excellent iff r >= 95, good iff
\* 85 <= r < 95, moderate iff 70 <= r < 85, poor iff r < 70.
C14_TierFirst ==
  stage = "recommended" =>
    LET num == report.completion_rate.num
        den == report.completion_rate.den
    IN  /\ Len(recommendations) >= 1
        /\ recommendations[1] = ExcellentMessage <=> num >= 95 * den
        /\ recommendations[1] = GoodMessage <=> (85 * den <= num /\ num < 95 * den)
        /\ recommendations[1] = ModerateMessage <=> (70 * den <= num /\ num < 85 * den)
        /\ recommendations[1] = PoorMessage <=> num < 70 * den

\* A report with completion rate 96 has been answered with the excellent
\* message first.
C14_Witness ==
  /\ stage = "recommended"
  /\ report.completion_rate = Rational(96, 1)
  /\ recommendations[1] = ExcellentMessage

\* The names of the metadata columns with a missing cell, in table order.
ColumnsWithMissing ==
  IF Empty(metadata) THEN <<>>
  ELSE SelectSeq(metadata.columns, LAMBDA col :
         \E j \in 1..Len(metadata.columns) :
           /\ metadata.columns[j] = col
           /\ \E i \in 1..Len(metadata.rows) : metadata.rows[i][j] = NaN)

\* Some metadata column of the report has "organism" in its name, in any
\* letter case.
HasOrganismColumn ==
  /\ ~Empty(metadata)
  /\ \E j \in 1..Len(metadata.columns) :
       NameContains(metadata.columns[j], OrganismWord)

\* The first n elements of s, or all of s.
FirstOf(s, n) == SubSeq(s, 1, IF Len(s) < n THEN Len(s) ELSE n)

\* C15 as stated: after the tier message come at most one message about
\* the columns with missing data (the first 5 names in table order and,
\* beyond 5, the count of the others) and at most one advisory message on
\* organism columns, and nothing else.
C15_OneColumnsMessage ==
  stage = "recommended" =>
    LET names == ColumnsWithMissing
        rest == Tail(recommendations)
    IN  /\ Len(rest) = (IF names # <<>> THEN 1 ELSE 0)
                       + (IF HasOrganismColumn THEN 1 ELSE 0)
        /\ names # <<>> =>
             /\ StartsWith(rest[1], ColumnsMessagePrefix
                                      \o Join(<<",", " ">>, FirstOf(names, 5)))
             /\ Len(names) > 5 => Contains(rest[1], Decimal(Len(names) - 5))
        /\ HasOrganismColumn => rest[Len(rest)] = OrganismMessage

\* C15: after the tier message come, in this order: if some column has a
\* missing cell, one message listing the first 5 such names in table
\* order, followed, if there are more than 5, by a second message with the
\* count of the others; then, if a column name contains "organism" in any
\* letter case, the advisory message; and nothing else.
C15_ColumnsThenAdvisory ==
  stage = "recommended" =>
    LET names == ColumnsWithMissing
    IN  Tail(recommendations) =
          (IF names = <<>> THEN <<>>
           ELSE <<ColumnsMessagePrefix \o Join(<<",", " ">>, FirstOf(names, 5))>>)
          \o (IF Len(names) > 5
              THEN <<MoreColumnsPrefix \o Decimal(Len(names) - 5) \o MoreColumnsSuffix>>
              ELSE <<>>)
          \o (IF HasOrganismColumn THEN <<OrganismMessage>> ELSE <<>>)

\* A table of 6 columns, Organism_ch1 among them, each with a missing
\* cell, has been reported and answered: the tier message, the message
\* listing 5 columns, the message counting 1 more, and the advisory.
C15_Witness ==
  /\ stage = "recommended"
  /\ Len(ColumnsWithMissing) = 6
  /\ HasOrganismColumn
  /\ Len(recommendations) = 4
  /\ recommendations[3] = MoreColumnsPrefix \o <<"1">> \o MoreColumnsSuffix
  /\ recommendations[4] = OrganismMessage

---------------------------------------------------------------------------
\* Properties of clean_expression_data.

\* The cell of the input is a numeric token.
IsNumericCell(i, j) ==
  LET cell == expression.rows[i][j]
  IN  /\ cell # NaN
      /\ cell # <<>>
      /\ cell \notin {<<"-">>, <<"+">>}
      /\ \A k \in 1..Len(cell) :
           \/ cell[k] \in Digits
           \/ k = 1 /\ cell[k] \in {"+", "-"}
           \/ /\ cell[k] = "."
              /\ k > 1 /\ cell[k - 1] \in Digits
              /\ k < Len(cell) /\ cell[k + 1] \in Digits
              /\ \A l \in 1..Len(cell) : cell[l] = "." => l = k

\* The rows of the input with a numeric cell, in order.
NumericRows ==
  SelectSeq([i \in 1..Len(expression.rows) |-> i],
            LAMBDA i : \E j \in 1..Len(expression.columns) : IsNumericCell(i, j))

\* The columns of the input with a numeric cell, in order.
NumericColumns ==
  SelectSeq([j \in 1..Len(expression.columns) |-> j],
            LAMBDA j : \E i \in 1..Len(expression.rows) : IsNumericCell(i, j))

\* C16: clean_expression_data returns None for None; otherwise the rows
\* and the columns of the result are those of the input with a numeric
\* cell, in the input order, a cell is missing in the result exactly when
\* it was no numeric token, and no row and no column of the result is
\* entirely missing.
C16_ExpressionCleaned ==
  stage = "cleaned" =>
    IF expression = None THEN cleaned = None
    ELSE /\ cleaned # None
         /\ cleaned.index = [a \in 1..Len(NumericRows) |->
                               expression.index[NumericRows[a]]]
         /\ cleaned.columns = [b \in 1..Len(NumericColumns) |->
                                 expression.columns[NumericColumns[b]]]
         /\ Len(cleaned.rows) = Len(NumericRows)
         /\ \A a \in 1..Len(NumericRows) :
              /\ Len(cleaned.rows[a]) = Len(NumericColumns)
              /\ \A b \in 1..Len(NumericColumns) :
                   cleaned.rows[a][b] = NaN
                     <=> ~IsNumericCell(NumericRows[a], NumericColumns[b])
              /\ \E b \in 1..Len(NumericColumns) : cleaned.rows[a][b] # NaN
         /\ \A b \in 1..Len(cleaned.columns) :
              \E a \in 1..Len(cleaned.rows) : cleaned.rows[a][b] # NaN

\* A table of 2 rows and 2 columns with one numeric cell, one text cell
\* and a row and a column without a numeric cell has been cleaned: one
\* row and one column are left.
C16_Witness ==
  /\ stage = "cleaned"
  /\ expression # None
  /\ Len(expression.rows) = 2
  /\ Len(expression.columns) = 2
  /\ IsNumericCell(1, 1)
  /\ expression.rows[1][2] # NaN
  /\ expression.rows[2][1] # NaN
  /\ expression.rows[2][2] = NaN
  /\ cleaned.columns = << <<"G","S","M","1">> >>
  /\ cleaned.index = << <<"p","1">> >>
  /\ expression.rows[1][1] = <<"0">>
  /\ cleaned.rows = << << <<"float", 0, 1>> >> >>

---------------------------------------------------------------------------
\* Properties of parse_geo_file.

\* The file name has neither the suffix .soft nor the suffix .txt.
UnsupportedName ==
  /\ ~(Len(filename) >= 5 /\ SubSeq(filename, Len(filename) - 4, Len(filename)) = SoftSuffix)
  /\ ~(Len(filename) >= 4 /\ SubSeq(filename, Len(filename) - 3, Len(filename)) = TxtSuffix)

\* The error is the one of an unsupported file format.
IsUnsupportedFileFormat(e) ==
  e.context = "ValueError" /\ EndsWith(e.message, UnsupportedMessage)

\* The error is the one of a file that could not be decoded or parsed,
\* with the file name and the cause in it.
IsFileParseError(e) ==
  /\ e.context # "ValueError"
  /\ StartsWith(e.message, ParseErrorPrefix \o filename \o <<":", " ">>)
  /\ Len(e.message) > Len(ParseErrorPrefix \o filename \o <<":", " ">>)

\* C18: a file name with neither suffix fails as an unsupported file
\* format for every content, bytes that do not decode among them; the
\* bytes that do not decode and the files that do not parse, of a
\* supported name, fail as a parse error with the file name and the cause;
\* no failing call returns a metadata table.
C18_ErrorKinds ==
  stage = "parsed" =>
    /\ UnsupportedName => raised /\ IsUnsupportedFileFormat(error)
    /\ (~UnsupportedName /\ content = InvalidUtf8)
         => raised /\ IsFileParseError(error)
    /\ (~UnsupportedName /\ raised) => IsFileParseError(error)
    /\ raised => metadata = None /\ expression = None

---------------------------------------------------------------------------
\* Extraction from a GEOparse object: the objects handed in.

SubsetName(i) == <<"G","D","S","1","_">> \o Decimal(i)

GsmName(i) == <<"G","S","M">> \o Decimal(i)

\* The metadata of a subset: description and type with a field of its own,
\* no field at all, an empty description.
SubsetMetadatas ==
  { << <<<<"d","e","s","c","r","i","p","t","i","o","n">>, <<<<"c","o","n","t","r","o","l">>>> >>,
       <<<<"t","y","p","e">>, <<<<"a","g","e","n","t">>>> >>,
       <<SampleIdKey, <<GsmName(1), GsmName(2)>> >>,
       <<<<"v","a","l","u","e","_","t","y","p","e">>, <<<<"c","o","u","n","t">>, <<"l","o","g">>>> >> >>,
    <<>>,
    << <<<<"d","e","s","c","r","i","p","t","i","o","n">>, <<>> >> >> }

\* The metadata of a GDS.
GdsMetadatas ==
  { << <<<<"s","a","m","p","l","e","_","o","r","g","a","n","i","s","m">>, <<HomoSapiens>> >>,
       <<<<"p","l","a","t","f","o","r","m">>, <<<<"G","P","L","1">>>> >>,
       <<<<"s","u","m","m","a","r","y">>, <<<<"f","i","r","s","t"," ","p","a","r","t">>, <<"s","e","c","o","n","d"," ","p","a","r","t">>>> >> >>,
    <<>> }

\* The metadata of a GSM: the standard fields with one of its own, no field
\* at all, an empty title.
GsmMetadatas ==
  { << <<<<"t","i","t","l","e">>, <<<<"c","o","n","t","r","o","l">>>> >>,
       <<<<"o","r","g","a","n","i","s","m","_","c","h","1">>, <<MusMusculus>> >>,
       <<<<"c","h","a","r","a","c","t","e","r","i","s","t","i","c","s","_","c","h","1">>, <<<<"f","i","r","s","t"," ","p","a","r","t">>, <<"s","e","c","o","n","d"," ","p","a","r","t">>>> >>,
       <<<<"r","e","l","a","t","i","o","n">>, <<<<"f","i","r","s","t"," ","p","a","r","t">>>> >> >>,
    <<>>,
    << <<<<"t","i","t","l","e">>, <<>> >> >> }

ProbeRows(b) ==
  << << <<"p","1">>, <<"1",".","5">> \o Decimal(b) >>,
     << <<"p","2">>, <<"2",".","5">> \o Decimal(b) >> >>

\* The table of a GDS: none, one with an ID_REF column, one without, one
\* with two ID_REF columns, one whose copy raises.
GdsTables ==
  { None,
    [copy_raises |-> FALSE, columns |-> <<IdRef, GsmName(1)>>, rows |-> ProbeRows(1)],
    [copy_raises |-> FALSE, columns |-> <<<<"I","D","E","N","T","I","F","I","E","R">>, GsmName(1)>>, rows |-> ProbeRows(1)],
    [copy_raises |-> FALSE, columns |-> <<IdRef, IdRef>>, rows |-> ProbeRows(1)],
    [copy_raises |-> TRUE, columns |-> <<IdRef, GsmName(1)>>, rows |-> ProbeRows(1)] }

\* The table of sample b: none, one with ID_REF and VALUE, one without
\* VALUE, one with VALUE and no ID_REF, one whose copy raises.
GsmTables(b) ==
  { None,
    [copy_raises |-> FALSE, columns |-> <<IdRef, ValueColumn>>, rows |-> ProbeRows(b)],
    [copy_raises |-> FALSE, columns |-> <<IdRef, <<"c","o","u","n","t">>>>, rows |-> ProbeRows(b)],
    [copy_raises |-> FALSE, columns |-> <<<<"I","D","E","N","T","I","F","I","E","R">>, ValueColumn>>, rows |-> ProbeRows(b)],
    [copy_raises |-> TRUE, columns |-> <<IdRef, ValueColumn>>, rows |-> ProbeRows(b)] }

\* The samples of a GSE: with a table, or without the attribute.
Gsms(b) ==
  { [metadata |-> md, table |-> table] : md \in GsmMetadatas, table \in GsmTables(b) }
    \cup { [metadata |-> md] : md \in GsmMetadatas }

\* What gse.pivot_samples('VALUE') does: it raises, or returns a table.
PivotSamples ==
  { [raises |-> TRUE, result |-> None],
    [raises |-> FALSE,
     result |-> [index_name |-> IdRef, index |-> << <<"p","1">> >>,
                 columns |-> <<GsmName(1)>>, rows |-> << << <<"1",".","5">> >> >>]] }

\* obj with the attribute name added.
WithAttribute(obj, name, value) ==
  [a \in DOMAIN obj \cup {name} |-> IF a = name THEN value ELSE obj[a]]

\* A GDS: up to MaxSamples subsets, with or without a table.
IsGds(obj) ==
  \E n \in 0..MaxSamples : \E mds \in [1..n -> SubsetMetadatas] :
  \E md \in GdsMetadatas :
    LET gds == [name |-> <<"G","D","S","1">>, metadata |-> md,
                subsets |-> [i \in 1..n |-> <<SubsetName(i), [metadata |-> mds[i]]>>]]
    IN  \/ obj = gds
        \/ \E table \in GdsTables : obj = WithAttribute(gds, "table", table)

\* A GSE: up to MaxSamples samples, with or without pivot_samples.
IsGse(obj) ==
  \E n \in 0..MaxSamples : \E samples \in [1..n -> UNION {Gsms(b) : b \in 1..n}] :
    /\ \A i \in 1..n : samples[i] \in Gsms(i)
    /\ LET gse == [gsms |-> [i \in 1..n |-> <<GsmName(i), samples[i]>>]]
       IN  \/ obj = gse
           \/ \E pivot \in PivotSamples : obj = WithAttribute(gse, "pivot_samples", pivot)

\* The object is a GDS, a GSE, a GDS that has gsms as well, or an object
\* that has neither subsets nor gsms.
InitExtract ==
  /\ stage = "input"
  /\ \/ IsGds(geo_object)
     \/ IsGse(geo_object)
     \/ \E md \in GdsMetadatas, smd \in SubsetMetadatas, table \in GdsTables :
        \E gsm \in Gsms(1) :
          geo_object = [name |-> <<"G","D","S","1">>, metadata |-> md,
                        subsets |-> << <<SubsetName(1), [metadata |-> smd]>> >>,
                        table |-> table,
                        gsms |-> << <<GsmName(1), gsm>> >>]
     \/ geo_object \in { [name |-> <<"G","P","L","1">>],
                         [name |-> <<"G","P","L","1">>, metadata |-> <<>>,
                          table |-> None] }
  /\ raised = FALSE
  /\ error = Unset
  /\ metadata = Unset
  /\ expression = Unset
  /\ content = Unset
  /\ filename = Unset
  /\ cleaned = Unset
  /\ recleaned = Unset
  /\ custom_mappings = <<>>
  /\ organism = Unset
  /\ normalized = Unset
  /\ renormalized = Unset
  /\ report = Unset
  /\ recommendations = Unset
  /\ NoHeap

\* metadata, expression = processor.extract_geo_data(geo_object)
ExtractGeo ==
  /\ stage = "input"
  /\ LET result == ExtractGeoData(geo_object)
     IN  /\ raised' = result.raised
         /\ error' = result.error
         /\ metadata' = result.metadata
         /\ expression' = result.expression
  /\ stage' = "extracted"
  /\ UNCHANGED <<content, cleaned, recleaned, normVars, filename, geo_object,
                 report, recommendations, heapVars>>

NextExtract == ExtractGeo

SpecExtract == InitExtract /\ [][NextExtract]_vars

---------------------------------------------------------------------------
\* Properties of the extraction from a GEOparse object.

\* The keys of a dict, in order.
Keys(d) == [i \in 1..Len(d) |-> d[i][1]]

\* The sample_id of each record of a metadata table.
SampleIds(df) ==
  [i \in 1..Len(df.rows) |->
     df.rows[i][CHOOSE j \in 1..Len(df.columns) : df.columns[j] = SampleIdKey]]

HasField(df, name) == \E j \in 1..Len(df.columns) : df.columns[j] = name

\* One record per subset, with the fields of a GDS subset.
IsShapeA ==
  /\ SampleIds(metadata) = Keys(geo_object.subsets)
  /\ metadata.rows # <<>> =>
       /\ HasField(metadata, <<"d","a","t","a","s","e","t","_","i","d">>)
       /\ ~HasField(metadata, <<"t","r","e","a","t","m","e","n","t">>)

\* One record per sample, with the fields of a GSM.
IsShapeB ==
  /\ SampleIds(metadata) = Keys(geo_object.gsms)
  /\ metadata.rows # <<>> =>
       /\ HasField(metadata, <<"t","r","e","a","t","m","e","n","t">>)
       /\ ~HasField(metadata, <<"d","a","t","a","s","e","t","_","i","d">>)

\* The error of an object that is neither shape.
IsUnrecognizedSourceKind(e) ==
  e.message = ExtractErrorPrefix \o UnknownTypeMessage

\* C19: an object that has subsets is extracted as a GDS, with gsms or
\* without; one that has gsms and no subsets as a GSE; one that has
\* neither fails with the unknown-type error and returns no table.  No
\* failure of an object of a known shape is the unknown-type error.
C19_DispatchByStructure ==
  stage = "extracted" =>
    /\ "subsets" \in DOMAIN geo_object =>
         IF raised THEN ~IsUnrecognizedSourceKind(error) ELSE IsShapeA
    /\ ("gsms" \in DOMAIN geo_object /\ "subsets" \notin DOMAIN geo_object) =>
         IF raised THEN ~IsUnrecognizedSourceKind(error) ELSE IsShapeB
    /\ ("gsms" \notin DOMAIN geo_object /\ "subsets" \notin DOMAIN geo_object) =>
         /\ raised
         /\ IsUnrecognizedSourceKind(error)
         /\ metadata = None
         /\ expression = None

\* An object with subsets and gsms has been extracted as a GDS.
C19_Witness ==
  /\ stage = "extracted"
  /\ {"subsets", "gsms"} \subseteq DOMAIN geo_object
  /\ ~raised
  /\ SampleIds(metadata) = <<SubsetName(1)>>
  /\ HasField(metadata, <<"d","a","t","a","s","e","t","_","i","d">>)

\* No list of the metadata is empty: every field can be read.
MetadataReadable(md) == \A i \in 1..Len(md) : md[i][2] # <<>>

\* A step of the expression extraction of a table raises: the copy, or
\* set_index when the ID_REF columns are not one.
TableStepFails(table, needs_value) ==
  \/ table.copy_raises
  \/ /\ needs_value => \E j \in 1..Len(table.columns) : table.columns[j] = ValueColumn
     /\ needs_value \/ \E j \in 1..Len(table.columns) : table.columns[j] = IdRef
     /\ Cardinality({j \in 1..Len(table.columns) : table.columns[j] = IdRef}) # 1

\* A step of the expression extraction of the object raises.
ExpressionStepFails ==
  IF "subsets" \in DOMAIN geo_object
  THEN IF "table" \in DOMAIN geo_object
       THEN geo_object.table # None /\ TableStepFails(geo_object.table, FALSE)
       ELSE FALSE
  ELSE IF "pivot_samples" \in DOMAIN geo_object
  THEN geo_object.pivot_samples.raises
  ELSE \E i \in 1..Len(geo_object.gsms) :
         LET gsm == geo_object.gsms[i][2]
         IN  IF "table" \in DOMAIN gsm
             THEN gsm.table # None /\ TableStepFails(gsm.table, TRUE)
             ELSE FALSE

\* The metadata of the object can be read.
ObjectMetadataReadable ==
  IF "subsets" \in DOMAIN geo_object
  THEN /\ MetadataReadable(geo_object.metadata)
       /\ \A i \in 1..Len(geo_object.subsets) :
            MetadataReadable(geo_object.subsets[i][2].metadata)
  ELSE \A i \in 1..Len(geo_object.gsms) :
         MetadataReadable(geo_object.gsms[i][2].metadata)

\* C20: when a step of the expression extraction of a GDS or a GSE raises,
\* the call returns, with one metadata record per subset or sample and
\* with None as the expression table.
C20_ExpressionFailureNotFatal ==
  (/\ stage = "extracted"
   /\ DOMAIN geo_object \cap {"subsets", "gsms"} # {}
   /\ ObjectMetadataReadable
   /\ ExpressionStepFails)
    => /\ ~raised
       /\ IF "subsets" \in DOMAIN geo_object THEN IsShapeA ELSE IsShapeB
       /\ expression = None

---------------------------------------------------------------------------
\* The caller's table across a cleaning call: the table handed in is the
\* object at refs.caller, and metadata or expression keeps its value as
\* handed in.

\* The column names of the metadata tables: names that clean_metadata
\* rewrites, names of organism columns, names it leaves alone.
OwnedHeaders ==
  { <<>>,
    <<<<"s","a","m","p","l","e","_","i","d">>>>,
    <<<<"O","r","g","a","n","i","s","m">>>>,
    <<<<"s","a","m","p","l","e","_","i","d">>, <<"o","r","g","a","n","i","s","m">>>>,
    <<<<"S","a","m","p","l","e","-","I","d">>, <<"S","p","e","c","i","e","s"," ","N","a","m","e">>>> }

\* The cells: missing, a missing indicator, text that clean_metadata
\* rewrites, an organism alias.
OwnedCells ==
  { NaN,
    <<"N","/","A">>,
    <<" ","l","i","v","e","r"," "," ","t","i","s","s","u","e"," ">>,
    <<"h","u","m","a","n">> }

InitOwnership ==
  /\ stage = "input"
  /\ \/ /\ \E columns \in OwnedHeaders, m \in 0..MaxOwnedRows :
             \E rows \in [1..m -> [1..Len(columns) -> OwnedCells]] :
               metadata = [columns |-> columns, rows |-> rows]
        /\ expression = Unset
        /\ heap = <<metadata>>
        /\ refs = [table |-> "metadata", caller |-> 1, returned |-> NullRef]
     \/ /\ metadata = Unset
        /\ \/ /\ expression = None
              /\ heap = <<>>
              /\ refs = [table |-> "expression", caller |-> NullRef,
                         returned |-> NullRef]
           \/ /\ \E m \in 0..MaxOwnedRows, n \in 0..2 :
                   \E kinds \in [1..m -> [1..n -> {"number", "text", "missing"}]] :
                     expression = ExpressionTable(m, n, kinds)
              /\ heap = <<expression>>
              /\ refs = [table |-> "expression", caller |-> 1,
                         returned |-> NullRef]
  /\ content = Unset
  /\ raised = FALSE
  /\ cleaned = Unset
  /\ recleaned = Unset
  /\ custom_mappings = <<>>
  /\ organism = Unset
  /\ normalized = Unset
  /\ renormalized = Unset
  /\ NoCall

\* cleaned = processor.clean_metadata(metadata)
CallCleanMetadata ==
  /\ stage = "input"
  /\ refs.table = "metadata"
  /\ LET result == CleanMetadataCall(heap, refs.caller)
     IN  /\ heap' = result.heap
         /\ refs' = [refs EXCEPT !.returned = result.ref]
         /\ cleaned' = result.heap[result.ref]
  /\ stage' = "cleaned"
  /\ UNCHANGED <<content, raised, metadata, expression, recleaned, normVars,
                 callVars>>

\* normalized = normalizer.normalize_metadata(metadata)
CallNormalizeMetadata ==
  /\ stage = "input"
  /\ refs.table = "metadata"
  /\ LET result == NormalizeMetadataCall(OrganismMappings, heap, refs.caller)
     IN  /\ heap' = result.heap
         /\ refs' = [refs EXCEPT !.returned = result.ref]
         /\ normalized' = result.heap[result.ref]
  /\ stage' = "normalized"
  /\ UNCHANGED <<custom_mappings, organism, renormalized, tableVars, callVars>>

\* cleaned = processor.clean_expression_data(expression)
CallCleanExpression ==
  /\ stage = "input"
  /\ refs.table = "expression"
  /\ LET result == CleanExpressionCall(heap, refs.caller)
     IN  /\ heap' = result.heap
         /\ refs' = [refs EXCEPT !.returned = result.ref]
         /\ cleaned' = IF result.ref = NullRef THEN None
                       ELSE result.heap[result.ref]
  /\ stage' = "cleaned"
  /\ UNCHANGED <<content, raised, metadata, expression, recleaned, normVars,
                 callVars>>

NextOwnership ==
  CallCleanMetadata \/ CallNormalizeMetadata \/ CallCleanExpression

SpecOwnership == InitOwnership /\ [][NextOwnership]_vars

\* C21: after clean_metadata, clean_expression_data or normalize_metadata
\* has returned, the table the caller handed in has the column names, the
\* rows and the cells it had before the call.
C21_InputUntouched ==
  stage \in {"cleaned", "normalized"} =>
    IF refs.table = "metadata"
    THEN heap[refs.caller] = metadata
    ELSE refs.caller # NullRef => heap[refs.caller] = expression

\* clean_metadata has returned a table with other column names and other
\* cells than the table handed in.
C21_Witness ==
  /\ stage = "cleaned"
  /\ refs.table = "metadata"
  /\ heap[refs.caller] = metadata
  /\ heap[refs.returned].columns # metadata.columns
  /\ heap[refs.returned].rows # metadata.rows

---------------------------------------------------------------------------
\* Properties of organism normalization.

\* C8: with the alias mapping as built at construction, normalizing the
\* result of a normalization gives that result again, for every input
\* (resolved by alias, by pattern or by the title-case fallback).
C8_NormalizeIdempotent ==
  stage = "renormalized" /\ OrganismMappings = SeedMapping
    => renormalized = normalized

\* The characters other than word characters, whitespace and period removed.
RemoveSpecial(s) ==
  SelectSeq(s, LAMBDA c : IsWord(c) \/ IsSpace(c) \/ c = ".")

\* The key as the specification words it: lowercased, whitespace collapsed,
\* the other characters removed, trimmed.
StrippedKey(name) == Strip(RemoveSpecial(CollapseSpaces(Lower(name))))

\* The key with each of the other characters replaced by one space instead.
SpacedKey(name) ==
  Strip([i \in 1..Len(CollapseSpaces(Lower(name))) |->
           LET c == CollapseSpaces(Lower(name))[i]
           IN  IF IsWord(c) \/ IsSpace(c) \/ c = "." THEN c ELSE " "])

\* The patterns that match a key.
MatchingPatterns(key) ==
  {p \in DOMAIN organism_patterns : Search(organism_patterns[p].alts, key)}

RECURSIVE TitleWords(_, _)
\* Each word title-cased, a particle after the first word kept lowercase.
TitleWords(words, first) ==
  IF words = <<>> THEN <<>>
  ELSE LET w == Head(words)
           t == IF ~first /\ Lower(w) \in Particles
                THEN Lower(w)
                ELSE <<UpperChar(Head(w))>> \o Lower(Tail(w))
       IN  <<t>> \o TitleWords(Tail(words), FALSE)

TitleCased(name) == Join(<<" ">>, TitleWords(SplitSpace(name), TRUE))

\* The precedence contract on a given key: alias, else the first pattern
\* in declared order, else the title-cased original input.
PrecedenceOn(key) ==
  IF key \in DOMAIN OrganismMappings
  THEN normalized = OrganismMappings[key]
  ELSE IF MatchingPatterns(key) # {}
       THEN \E p \in MatchingPatterns(key) :
              /\ \A q \in MatchingPatterns(key) : p <= q
              /\ normalized = organism_patterns[p].name
       ELSE normalized = TitleCased(organism)

C10_SeededExamples ==
  stage = "normalized" /\ OrganismMappings = SeedMapping =>
    /\ organism = <<"h","u","m","a","n">> => normalized = HomoSapiens
    /\ organism = <<"H","."," ","S","a","p","i","e","n","s">>
         => normalized = HomoSapiens
    /\ organism = <<"M","u","s","_","m","u","s","c","u","l","u","s">>
         => normalized = MusMusculus
    /\ organism = <<>> => normalized = <<>>
    /\ organism = <<"x","e","n","o","p","u","s"," ","l","a","e","v","i","s">>
         => normalized = <<"X","e","n","o","p","u","s"," ","L","a","e","v","i","s">>

\* All five names are inputs, and "Mus_musculus" has been normalized.
C10_Witness ==
  /\ { <<"h","u","m","a","n">>, <<"H","."," ","S","a","p","i","e","n","s">>,
       <<>>, <<"x","e","n","o","p","u","s"," ","l","a","e","v","i","s">> }
       \subseteq OrganismInputs
  /\ stage = "normalized"
  /\ OrganismMappings = SeedMapping
  /\ organism = <<"M","u","s","_","m","u","s","c","u","l","u","s">>
  /\ normalized = MusMusculus

\* The key under which add_custom_mapping stores an alias.
StoredKey(from_name) == Strip(Lower(from_name))

\* C22: a name that was added as an alias, under its lowercased and
\* trimmed form, is normalized to the name stored for it: the last name
\* added for that name, after any other additions.
C22_AliasThenNormalize ==
  stage = "normalized" =>
    \A from_name \in AliasFromNames :
      (organism = from_name /\ StoredKey(from_name) \in DOMAIN custom_mappings)
        => normalized = custom_mappings[StoredKey(from_name)]

===========================================================================
